---- MODULE Spec2Model ----
(***************************************************************************)
(* State-machine model of the rewards collector:                           *)
(*   src/src/rewards_collector.py   ValidatorReader, BeaconchainAPI,       *)
(*                                  RewardProcessor, ParquetWriter,        *)
(*                                  RewardsCollector, main                 *)
(*   src/src/rewards_backfiller.py  RewardsBackfiller                      *)
(*   src/invoicing/rewards_monitor.py  RewardsMonitor                      *)
(*                                                                         *)
(* The ledger is the file rewards_master.parquet: whether it exists and    *)
(* its rows in stored order.  One collection cycle (collect_rewards) is    *)
(* one step: the replies of the remote services to the cycle's requests    *)
(* are its inputs.  A loop iteration of the backfiller or of the monitor   *)
(* is one step as well: the poll of the finalized epoch, the branch, the   *)
(* cycle and the update of the loop variable.  The sleeps only delay.      *)
(***************************************************************************)
EXTENDS Integers, Sequences, FiniteSets, TLC

(***************************************************************************)
(* Bounds of the model.                                                    *)
(***************************************************************************)
\* Rows of the validator table (two chunks of the default chunk size).
NumValidators == 101
MaxRows == 3
MaxChunkSize == 3
MaxAmount == 24
MaxLedgerRows == 2
\* Records one call of save_rewards is given at most.
MaxItems == 2
\* Times the finalized epoch moves on, by one collection interval each time.
MaxTip == 3
\* The clock of the client counts ticks: this many to the second.
TicksPerSecond == 16
\* The clock of the client is followed for this many ticks.
MaxTime == 8

(***************************************************************************)
(* Program constants.                                                      *)
(***************************************************************************)
\* chunk_validators(chunk_size = 100)
CHUNK_SIZE == 100
\* query_epoch = epoch + 99
QUERY_OFFSET == 99
\* config.get('epoch_interval', 100)
EPOCH_INTERVAL == 100
\* The configured EPOCH_START of the backfiller (its fallback epoch).
fallback_epoch == 100
\* The configured EPOCH_WATCH_START of the monitor.
start_epoch == 100
\* BeaconchainAPI.__init__(rate_limit_per_second = 8.0)
rate_limit_per_second == 8

(***************************************************************************)
(* Small helpers.                                                          *)
(***************************************************************************)
Min(a, b) == IF a <= b THEN a ELSE b

SeqsUpTo(S, n) == UNION {[1..k -> S] : k \in 0..n}

RECURSIVE MaxOf(_)
MaxOf(S) ==
  LET x == CHOOSE y \in S : TRUE
  IN  IF S = {x} THEN x
      ELSE LET m == MaxOf(S \ {x}) IN IF x > m THEN x ELSE m

(***************************************************************************)
(* Amounts.  A Python integer has no width: an amount in gwei or in wei is  *)
(* kept as its digits in base 2^15, lowest first and without leading        *)
(* zeros, so that 32 * 10^9 gwei and the amounts in wei keep their exact    *)
(* value.                                                                   *)
(***************************************************************************)
DigitBits == 15

Base == 2^DigitBits

RECURSIVE DigitsOf(_)
DigitsOf(n) == IF n = 0 THEN <<>> ELSE <<n % Base>> \o DigitsOf(n \div Base)

RECURSIVE Trim(_)
Trim(a) ==
  IF a = <<>> THEN <<>>
  ELSE IF a[Len(a)] = 0 THEN Trim(SubSeq(a, 1, Len(a) - 1)) ELSE a

DigitAt(a, i) == IF i <= Len(a) THEN a[i] ELSE 0

RECURSIVE AddFrom(_, _, _, _)
AddFrom(a, b, i, carry) ==
  IF i > Len(a) /\ i > Len(b) THEN (IF carry = 0 THEN <<>> ELSE <<carry>>)
  ELSE LET s == DigitAt(a, i) + DigitAt(b, i) + carry
       IN  <<s % Base>> \o AddFrom(a, b, i + 1, s \div Base)

\* a + b
Add(a, b) == AddFrom(a, b, 1, 0)

RECURSIVE SubFrom(_, _, _, _)
SubFrom(a, b, i, borrow) ==
  IF i > Len(a) THEN <<>>
  ELSE LET d == DigitAt(a, i) - DigitAt(b, i) - borrow
       IN  <<(d + Base) % Base>> \o SubFrom(a, b, i + 1, IF d < 0 THEN 1 ELSE 0)

\* a - b, for a >= b
Sub(a, b) == Trim(SubFrom(a, b, 1, 0))

\* a * Base^k
ShiftDigits(a, k) == IF a = <<>> THEN <<>> ELSE [i \in 1..k |-> 0] \o a

RECURSIVE TimesDigit(_, _, _, _)
TimesDigit(a, d, i, carry) ==
  IF i > Len(a) THEN (IF carry = 0 THEN <<>> ELSE <<carry>>)
  ELSE LET p == a[i] * d + carry
       IN  <<p % Base>> \o TimesDigit(a, d, i + 1, p \div Base)

RECURSIVE MulFrom(_, _, _)
MulFrom(a, b, i) ==
  IF i > Len(a) THEN <<>>
  ELSE Add(ShiftDigits(Trim(TimesDigit(b, a[i], 1, 0)), i - 1), MulFrom(a, b, i + 1))

\* a * b
Mul(a, b) == MulFrom(a, b, 1)

\* 2^k
Pow2(k) == ShiftDigits(<<2^(k % DigitBits)>>, k \div DigitBits)

\* a * 2^k
ShiftLeft(a, k) == Mul(a, Pow2(k))

\* a // 2^k
ShiftRight(a, k) ==
  LET q == k \div DigitBits
      r == k % DigitBits
  IN  IF q >= Len(a) THEN <<>>
      ELSE Trim([i \in 1..(Len(a) - q) |->
                   (a[i + q] \div 2^r)
                     + (DigitAt(a, i + q + 1) % 2^r) * 2^(DigitBits - r)])

RECURSIVE SmallBitLength(_)
SmallBitLength(n) == IF n = 0 THEN 0 ELSE 1 + SmallBitLength(n \div 2)

\* a.bit_length()
BitLength(a) ==
  IF a = <<>> THEN 0 ELSE DigitBits * (Len(a) - 1) + SmallBitLength(a[Len(a)])

\* a < b
Less(a, b) ==
  \/ Len(a) < Len(b)
  \/ /\ Len(a) = Len(b)
     /\ a # b
     /\ LET i == MaxOf({k \in 1..Len(a) : a[k] # b[k]}) IN a[i] < b[i]

\* The integer written in decimal digits, highest first.
RECURSIVE Decimal(_)
Decimal(digits) ==
  IF digits = <<>> THEN <<>>
  ELSE Add(Trim(TimesDigit(Decimal(SubSeq(digits, 1, Len(digits) - 1)), 10, 1, 0)),
           DigitsOf(digits[Len(digits)]))

(***************************************************************************)
(* Python floats are IEEE 754 doubles: a significand m of at most 53 bits   *)
(* and an exponent e, the value being m * 2^e.  The amounts are far from    *)
(* the ends of the exponent range.                                          *)
(***************************************************************************)
SignificandBits == 53

\* The double nearest to m * 2^e, ties to the even significand.
RoundToDouble(m, e) ==
  IF BitLength(m) <= SignificandBits THEN [m |-> m, e |-> e]
  ELSE LET d    == BitLength(m) - SignificandBits
           kept == ShiftRight(m, d)
           rest == Sub(m, ShiftLeft(kept, d))
           half == Pow2(d - 1)
           up   == Less(half, rest) \/ (rest = half /\ kept[1] % 2 = 1)
       IN  [m |-> IF up THEN Add(kept, <<1>>) ELSE kept, e |-> e + d]

\* x * y of two doubles
FloatMul(x, y) == RoundToDouble(Mul(x.m, y.m), x.e + y.e)

\* x + y of two doubles
FloatAdd(x, y) ==
  LET e == Min(x.e, y.e)
  IN  RoundToDouble(Add(ShiftLeft(x.m, x.e - e), ShiftLeft(y.m, y.e - e)), e)

\* int(x) of a double that is not negative
IntOf(x) == IF x.e >= 0 THEN ShiftLeft(x.m, x.e) ELSE ShiftRight(x.m, 0 - x.e)

\* The doubles 0.14 and 0.15: 0x1.1eb851eb851ecp-3 and 0x1.3333333333333p-3.
Commission8 ==
  [m |-> Add(ShiftLeft(DigitsOf(18790481), 28), DigitsOf(246960620)), e |-> -55]

Commission16 ==
  [m |-> Add(ShiftLeft(DigitsOf(20132659), 28), DigitsOf(53687091)), e |-> -55]

\* a // d and a % d for a digit d, from digit i down
RECURSIVE DivDigitFrom(_, _, _, _)
DivDigitFrom(a, d, i, rem) ==
  IF i = 0 THEN [q |-> <<>>, r |-> rem]
  ELSE LET cur  == rem * Base + a[i]
           rest == DivDigitFrom(a, d, i - 1, cur % d)
       IN  [q |-> rest.q \o <<cur \div d>>, r |-> rest.r]

\* a // 1000^n, and whether a is a multiple of 1000^n
RECURSIVE DivThousands(_, _)
DivThousands(a, n) ==
  IF n = 0 THEN [q |-> a, exact |-> TRUE]
  ELSE LET x    == DivDigitFrom(a, 1000, Len(a), 0)
           rest == DivThousands(Trim(x.q), n - 1)
       IN  [q |-> rest.q, exact |-> x.r = 0 /\ rest.exact]

\* One record for each double: an odd significand, or zero.
RECURSIVE Normal(_)
Normal(x) ==
  IF x.m = <<>> THEN [m |-> <<>>, e |-> 0]
  ELSE IF x.m[1] % 2 = 0 THEN Normal([m |-> ShiftRight(x.m, 1), e |-> x.e + 1])
  ELSE x

\* a / 10**(3 * n) of two ints: the double nearest to the quotient
TrueDiv(a, n) ==
  IF a = <<>> THEN Normal([m |-> <<>>, e |-> 0])
  ELSE LET k == SignificandBits + 2 + 10 * n
           x == DivThousands(ShiftLeft(a, k), n)
       IN  Normal(RoundToDouble(Add(ShiftLeft(x.q, 1),
                                    IF x.exact THEN <<>> ELSE <<1>>),
                                0 - k - 1))

\* values.sum() of doubles, from the first value on
RECURSIVE SumFrom(_, _, _)
SumFrom(values, i, total) ==
  IF i > Len(values) THEN total
  ELSE SumFrom(values, i + 1, FloatAdd(total, values[i]))

SumOf(values) == Normal(SumFrom(values, 1, [m |-> <<>>, e |-> 0]))


(***************************************************************************)
(* ValidatorReader.  A validator is known by its index; the table's other  *)
(* columns are copied into the records and decide nothing here.            *)
(***************************************************************************)
validators == [i \in 1..NumValidators |-> i]

\* Slices one entry longer: validators[i:i+chunk_size+1].
RECURSIVE ChunksOverlapping(_, _, _)
ChunksOverlapping(vals, i, chunk_size) ==
  IF i > Len(vals) THEN <<>>
  ELSE <<SubSeq(vals, i, Min(i + chunk_size, Len(vals)))>>
         \o ChunksOverlapping(vals, i + chunk_size, chunk_size)

\* for i in range(0, len(self.validators), chunk_size): validators[i:i+chunk_size]
RECURSIVE ChunksFrom(_, _, _)
ChunksFrom(vals, i, chunk_size) ==
  IF i > Len(vals) THEN <<>>
  ELSE <<SubSeq(vals, i, Min(i + chunk_size - 1, Len(vals)))>>
         \o ChunksFrom(vals, i + chunk_size, chunk_size)

chunk_validators(chunk_size) == ChunksFrom(validators, 1, chunk_size)

\* str.strip() on the cells of the tables read here.
strip(cell) ==
  CASE cell = " "   -> ""
    [] cell = " 3 " -> "3"
    [] OTHER        -> cell

\* The open() or the read raised: the error is logged and raised again.
Raised == [ok |-> FALSE, validators |-> <<>>]

\* if len(row) >= 4 and row[0].strip(): the row is kept
Kept(row) == Len(row) >= 4 /\ strip(row[1]) # ""

\* The dict appended for a row that is kept.
ValidatorOf(row) ==
  [index    |-> strip(row[1]),
   pubkey   |-> strip(row[2]),
   type     |-> strip(row[3]),
   node     |-> strip(row[4]),
   minipool |-> IF Len(row) > 4 THEN strip(row[5]) ELSE ""]

\* for row in reader: ... self.validators.append({...})
RECURSIVE LoadRows(_)
LoadRows(rows) ==
  IF rows = <<>> THEN <<>>
  ELSE (IF Kept(Head(rows)) THEN <<ValidatorOf(Head(rows))>> ELSE <<>>)
         \o LoadRows(Tail(rows))

\* A validator table that cannot be opened.
NoTable == [found |-> FALSE, rows |-> <<>>]

\* load_validators(): the first row is the header; a file that is not found
\* and a file without a first row raise.
load_validators(table) ==
  IF ~table.found \/ table.rows = <<>> THEN Raised
  ELSE [ok |-> TRUE, validators |-> LoadRows(Tail(table.rows))]

\* chunk_indices = [v['index'] for v in chunk]
IndexList(vals) == [i \in 1..Len(vals) |-> vals[i].index]

(***************************************************************************)
(* BeaconchainAPI: the shape of a request and of the replies.              *)
(***************************************************************************)
\* A query one epoch past the window: + 100 for + 99.
QueryPastWindow(epoch) == epoch + QUERY_OFFSET + 1

\* get_withdrawals: params = {'epoch': epoch + 99}
WithdrawalsQueryEpoch(epoch) == epoch + QUERY_OFFSET

\* get_proposals: params = {'epoch': epoch}
ProposalsQueryEpoch(epoch) == epoch

exited_statuses ==
  {"exited_unslashed", "exited_slashed", "withdrawal_possible", "withdrawal_done"}

\* The statuses of the beacon API that mean the validator has left: status
\* 'active_exiting' taken for one of them.
ExitedOrExiting(status) == status \in exited_statuses \cup {"active_exiting"}

is_validator_exited(status) == status \in exited_statuses

\* A lookup that takes a validator without a status for one that has left.
ExitedWhenUnknown(validator_statuses, validator_index) ==
  IF validator_index \in DOMAIN validator_statuses
  THEN validator_statuses[validator_index] ELSE "withdrawal_done"

\* validator_statuses.get(validator_index, '')
StatusOf(validator_statuses, validator_index) ==
  IF validator_index \in DOMAIN validator_statuses
  THEN validator_statuses[validator_index] ELSE ""

\* get_validator_statuses: the map of the reply, {} when the request fails.
get_validator_statuses(reply) == IF reply.ok THEN reply.data ELSE <<>>

(***************************************************************************)
(* RewardProcessor.  A stored record keeps the key columns, mev_source and *)
(* is_exit; datetime, validator_type, node, minipool and exec_block_number *)
(* are carried along unread by every operation modelled here.              *)
(***************************************************************************)
WithdrawalRecord(withdrawal, validator_statuses) ==
  [record_type     |-> "withdrawal",
   validator_index |-> withdrawal.validatorindex,
   amount          |-> withdrawal.amount,
   epoch           |-> withdrawal.epoch,
   mev_source      |-> "None",
   is_exit         |-> is_validator_exited(
                         StatusOf(validator_statuses, withdrawal.validatorindex))]

RECURSIVE process_withdrawals(_, _)
process_withdrawals(withdrawals_data, validator_statuses) ==
  IF withdrawals_data = <<>> THEN <<>>
  ELSE <<WithdrawalRecord(Head(withdrawals_data), validator_statuses)>>
         \o process_withdrawals(Tail(withdrawals_data), validator_statuses)

\* An attribution that takes the producer reward whether or not the block
\* came through a relay.
ProducerRewardAlways(proposal) ==
  IF proposal.exec_block_number = 0 THEN <<>>
  ELSE IF ~proposal.block.ok THEN <<>>
  ELSE IF proposal.block.data = <<>> THEN <<>>
  ELSE LET block_info == proposal.block.data[1]
       IN  <<[record_type     |-> "proposal",
              validator_index |-> block_info.proposerIndex,
              amount          |-> block_info.producerReward,
              epoch           |-> block_info.epoch,
              mev_source      |-> block_info.relay,
              is_exit         |-> FALSE]>>

\* One proposal of the reply: skipped without a block number, when the block
\* request fails and when the block reply holds no data.
ProposalRecords(proposal) ==
  IF proposal.exec_block_number = 0 THEN <<>>
  ELSE IF ~proposal.block.ok THEN <<>>
  ELSE IF proposal.block.data = <<>> THEN <<>>
  ELSE LET block_info == proposal.block.data[1]
       IN  <<[record_type     |-> "proposal",
              validator_index |-> block_info.proposerIndex,
              amount          |-> IF block_info.relay # ""
                                  THEN block_info.blockMevReward
                                  ELSE block_info.producerReward,
              epoch           |-> block_info.epoch,
              mev_source      |-> block_info.relay,
              is_exit         |-> FALSE]>>

RECURSIVE process_proposals(_)
process_proposals(proposals_data) ==
  IF proposals_data = <<>> THEN <<>>
  ELSE ProposalRecords(Head(proposals_data)) \o process_proposals(Tail(proposals_data))

(***************************************************************************)
(* ParquetWriter.save_rewards.  A file is [exists, rows].                  *)
(***************************************************************************)
NoFile == [exists |-> FALSE, rows |-> <<>>]

\* key_columns = ['epoch', 'validator_index', 'record_type', 'amount']
KeyOf(r) == <<r.epoch, r.validator_index, r.record_type, r.amount>>

\* An overwrite that keeps the rows of earlier epochs only: '<' for '!='.
KeepEarlierEpochs(rows, epoch) == SelectSeq(rows, LAMBDA r : r.epoch < epoch)

\* existing_df[existing_df['epoch'] != epoch]
RECURSIVE DropEpoch(_, _)
DropEpoch(rows, epoch) ==
  IF rows = <<>> THEN <<>>
  ELSE (IF Head(rows).epoch # epoch THEN <<Head(rows)>> ELSE <<>>)
         \o DropEpoch(Tail(rows), epoch)

\* drop_duplicates(subset = key_columns, keep = 'first')
RECURSIVE drop_duplicates(_)
drop_duplicates(rows) ==
  IF rows = <<>> THEN <<>>
  ELSE LET kept == drop_duplicates(SubSeq(rows, 1, Len(rows) - 1))
           last == rows[Len(rows)]
       IN  IF \E i \in 1..Len(kept) : KeyOf(kept[i]) = KeyOf(last)
           THEN kept ELSE Append(kept, last)

\* The order of the strings 'proposal' < 'withdrawal'.
TypeRank(record_type) == IF record_type = "proposal" THEN 0 ELSE 1

\* Row a sorts strictly before row b by ['epoch', 'record_type', 'validator_index'].
SortsBefore(a, b) ==
  \/ a.epoch < b.epoch
  \/ /\ a.epoch = b.epoch
     /\ TypeRank(a.record_type) < TypeRank(b.record_type)
  \/ /\ a.epoch = b.epoch
     /\ a.record_type = b.record_type
     /\ a.validator_index < b.validator_index

\* sort_values on several columns is a stable sort: rows with equal sort
\* columns keep their order.
RECURSIVE sort_values(_)
sort_values(rows) ==
  IF rows = <<>> THEN <<>>
  ELSE LET sorted == sort_values(SubSeq(rows, 1, Len(rows) - 1))
           last   == rows[Len(rows)]
           k      == Cardinality({i \in 1..Len(sorted) : ~SortsBefore(last, sorted[i])})
       IN  SubSeq(sorted, 1, k) \o <<last>> \o SubSeq(sorted, k + 1, Len(sorted))

\* The rows written when the master file exists.
CombineExisting(existing, new_rows, epoch) ==
  sort_values(drop_duplicates(DropEpoch(existing, epoch) \o new_rows))

\* The rows written when there is no master file yet: combined_df = new_df.
CombineNew(new_rows) == new_rows

save_rewards(file, withdrawals, proposals, epoch) ==
  LET all_records == withdrawals \o proposals
  IN  IF all_records = <<>> THEN file
      ELSE [exists |-> TRUE,
            rows   |-> IF file.exists
                       THEN CombineExisting(file.rows, all_records, epoch)
                       ELSE CombineNew(all_records)]

(***************************************************************************)
(* RewardsCollector.collect_rewards.  replies[i] are the replies to the    *)
(* requests of chunk i: statuses, withdrawals, proposals, each [ok, data]. *)
(* A failed withdrawals or proposals request raises inside the chunk's     *)
(* try block; the except clause logs and goes on with the next chunk.      *)
(***************************************************************************)
ChunkWithdrawals(reply) ==
  IF ~reply.withdrawals.ok THEN <<>>
  ELSE process_withdrawals(reply.withdrawals.data,
                           get_validator_statuses(reply.statuses))

ChunkProposals(reply) ==
  IF ~reply.withdrawals.ok \/ ~reply.proposals.ok THEN <<>>
  ELSE process_proposals(reply.proposals.data)

\* Whether a withdrawals or proposals request of the chunk raised.
ChunkFetchFailed(reply) ==
  ~reply.withdrawals.ok \/ ~reply.proposals.ok

RECURSIVE AllWithdrawals(_)
AllWithdrawals(replies) ==
  IF replies = <<>> THEN <<>>
  ELSE ChunkWithdrawals(Head(replies)) \o AllWithdrawals(Tail(replies))

RECURSIVE AllProposals(_)
AllProposals(replies) ==
  IF replies = <<>> THEN <<>>
  ELSE ChunkProposals(Head(replies)) \o AllProposals(Tail(replies))

\* What collect_rewards(epoch) hands to save_rewards, and whether a
\* withdrawals or proposals request raised in some chunk.
Collected(replies) ==
  [all_withdrawals |-> AllWithdrawals(replies),
   all_proposals   |-> AllProposals(replies),
   fetch_failed    |-> \E i \in 1..Len(replies) : ChunkFetchFailed(replies[i])]

\* The file after collect_rewards(epoch).
collect_rewards(file, epoch, c) ==
  save_rewards(file, c.all_withdrawals, c.all_proposals, epoch)

(***************************************************************************)
(* The replies the remote services can give to the requests of one cycle:   *)
(* a reply holds at most one withdrawal, or one proposal, of the chunk.    *)
(***************************************************************************)
Range(f) == {f[i] : i \in DOMAIN f}

\* The validators that earn rewards in the epochs modelled.
Earning == {validators[1]}

Reporting(chunk) == Earning \cap Range(chunk)

\* The status the validators of a cycle's replies are in.
StatusValues == {"active_ongoing"}

Failed == [ok |-> FALSE, data |-> <<>>]

StatusReplies(chunk) ==
  {Failed} \cup {[ok |-> TRUE, data |-> m] : m \in [Reporting(chunk) -> StatusValues]}

\* The withdrawals reply to a query at epoch + 99 covers epoch .. epoch + 99;
\* the withdrawal of the replies here is of the window's last epoch.
WithdrawalItems(chunk, epoch) ==
  {[validatorindex |-> v, amount |-> 3, epoch |-> e] :
     v \in Reporting(chunk), e \in {WithdrawalsQueryEpoch(epoch)}}

WithdrawalReplies(chunk, epoch) ==
  {Failed} \cup {[ok |-> TRUE, data |-> d] :
                   d \in SeqsUpTo(WithdrawalItems(chunk, epoch), 1)}

\* The block of a proposal of the queried epoch, built by a relay.
BlockInfos(chunk, epoch) ==
  {[proposerIndex |-> v, epoch |-> ProposalsQueryEpoch(epoch), relay |-> r,
    blockMevReward |-> 2, producerReward |-> 1] :
     v \in Reporting(chunk), r \in {"flashbots"}}

BlockReplies(chunk, epoch) ==
  {Failed, [ok |-> TRUE, data |-> <<>>]}
    \cup {[ok |-> TRUE, data |-> <<b>>] : b \in BlockInfos(chunk, epoch)}

\* A proposal of the reply with its block's reply; block number 0: none.
ProposalItems(chunk, epoch) ==
  IF Reporting(chunk) = {} THEN {}
  ELSE {[exec_block_number |-> 0, block |-> Failed]}
         \cup {[exec_block_number |-> 1, block |-> b] : b \in BlockReplies(chunk, epoch)}

ProposalReplies(chunk, epoch) ==
  {Failed} \cup {[ok |-> TRUE, data |-> d] :
                   d \in SeqsUpTo(ProposalItems(chunk, epoch), 1)}

\* Proposals are not requested once the withdrawals request has raised.
NotRequested == [ok |-> TRUE, data |-> <<>>]

ChunkReplies(chunk, epoch) ==
  {[statuses |-> st, withdrawals |-> w, proposals |-> p] :
     st \in StatusReplies(chunk),
     w \in WithdrawalReplies(chunk, epoch) \ {Failed},
     p \in ProposalReplies(chunk, epoch)}
  \cup {[statuses |-> st, withdrawals |-> Failed, proposals |-> NotRequested] :
          st \in StatusReplies(chunk)}

RECURSIVE RepliesFor(_, _)
RepliesFor(chunks, epoch) ==
  IF chunks = <<>> THEN {<<>>}
  ELSE {<<r>> \o rest : r \in ChunkReplies(Head(chunks), epoch),
                        rest \in RepliesFor(Tail(chunks), epoch)}

CycleReplies(epoch) == RepliesFor(chunk_validators(CHUNK_SIZE), epoch)

\* The finalized epoch after k moves: it starts half an interval above 0,
\* below the configured start epochs.
TipAt(k) == (EPOCH_INTERVAL \div 2) + EPOCH_INTERVAL * k

\* The largest finalized epoch of the model.
MaxFinalized == TipAt(MaxTip)

\* The epochs a cycle can be run for: up to one interval past the tip.
CycleEpochs == 1..(MaxFinalized + EPOCH_INTERVAL)

\* For each epoch, what a cycle can collect.
Cycles == [epoch \in CycleEpochs |-> {Collected(r) : r \in CycleReplies(epoch)}]

(***************************************************************************)
(* The records save_rewards is called with directly: withdrawals of        *)
(* validator 1 with its exit read or not and of validator 2, proposals of  *)
(* validator 1, in each of two epochs.                                     *)
(***************************************************************************)
WithdrawalRows ==
  {[record_type |-> "withdrawal", validator_index |-> v[1], amount |-> 3,
    epoch |-> e, mev_source |-> "None", is_exit |-> v[2]] :
     v \in {<<1, FALSE>>, <<1, TRUE>>, <<2, FALSE>>}, e \in {1, 2}}

ProposalRows ==
  {[record_type |-> "proposal", validator_index |-> 1, amount |-> m[1],
    epoch |-> e, mev_source |-> m[2], is_exit |-> FALSE] :
     m \in {<<2, "flashbots">>}, e \in {1, 2}}

\* The calls: withdrawals, proposals, epoch.
Calls ==
  {[withdrawals |-> w, proposals |-> p, epoch |-> e] :
     w \in SeqsUpTo(WithdrawalRows, MaxItems),
     p \in SeqsUpTo(ProposalRows, MaxItems),
     e \in {1, 2}}

SaveCalls == {c \in Calls : Len(c.withdrawals) + Len(c.proposals) <= MaxItems}

Saved(file, c) == save_rewards(file, c.withdrawals, c.proposals, c.epoch)

(***************************************************************************)
(* State.                                                                  *)
(***************************************************************************)
VARIABLES
  master,               \* rewards_master.parquet: [exists, rows]
  finalized,            \* the chain's latest finalized epoch
  bf_state,             \* backfiller process: "Idle", "Running", "Done", "Failed"
  next_epoch,           \* RewardsBackfiller.run: next_epoch
  override_start_epoch, \* --start-epoch of the running backfiller, 0: not given
  collected,            \* the running backfiller has completed a cycle
  discord_webhook,      \* DISCORD_WEBHOOK_URL of the process that stopped, "": unset
  notifications,        \* webhook POSTs of the running backfiller
  mon_state,            \* monitor process: "Idle", "Running"
  current_start_epoch,  \* RewardsMonitor.run: current_start_epoch
  last,                 \* the step just taken: [op, epoch, polled, fetch_failed]
  client,               \* BeaconchainAPI: the clock, last_request_time, the requests
  call,                 \* a function called on its own: [op, args, done, result]
  writers               \* processes inside save_rewards: [pc, job, combined, stale,
                        \* merged], and torn: the file on disk is cut short

vars == <<master, finalized, bf_state, next_epoch, override_start_epoch, collected,
          discord_webhook, notifications, mon_state, current_start_epoch, last,
          client, call, writers>>

Step(op, epoch, polled, fetch_failed) ==
  [op |-> op, epoch |-> epoch, polled |-> polled, fetch_failed |-> fetch_failed]

\* get_latest_epoch: the finalized epoch, or 0 when the request fails.
LatestEpochReplies == {0, finalized}

NoWriterRuns == bf_state # "Running" /\ mon_state # "Running"

(***************************************************************************)
(* BeaconchainAPI: the rate gate.  client is [now, last_request_time,      *)
(* request, gap]: the clock, the field of the gate, the request issued     *)
(* last, and the time between the issue of the last two requests.          *)
(***************************************************************************)
\* min_interval = 1.0 / self.rate_limit_per_second, in ticks.
min_interval == TicksPerSecond \div rate_limit_per_second

\* The requests that call _wait_for_rate_limit before they are sent.
GatedRequests == {"withdrawals", "proposals", "execution_block", "epoch_slots"}

\* The requests sent with requests.get / requests.post straight away.
UngatedRequests == {"validator_statuses", "latest_epoch"}

\* The epoch parameter a request carries, 0: none.
RequestEpoch(kind, epoch) ==
  IF kind = "withdrawals" THEN WithdrawalsQueryEpoch(epoch)
  ELSE IF kind = "proposals" THEN ProposalsQueryEpoch(epoch)
  ELSE IF kind = "epoch_slots" THEN epoch
  ELSE 0

NoRequest == [kind |-> "none", for_epoch |-> 0, epoch |-> 0, at |-> 0]

\* __init__: last_request_time = 0.0; the clock reads time.time(), far from 0.
NewClient ==
  [now |-> min_interval, last_request_time |-> 0, request |-> NoRequest,
   gap |-> min_interval]

\* The time _wait_for_rate_limit returns at when called at time now:
\* it sleeps for the rest of the interval if the interval has not passed.
GateOpensAt(now, last_request_time) ==
  IF now - last_request_time < min_interval
  THEN now + (min_interval - (now - last_request_time))
  ELSE now

\* The client after a request of the kind is issued at the time.
Issued(c, kind, epoch, at, gated) ==
  [now |-> at,
   last_request_time |-> IF gated THEN at ELSE c.last_request_time,
   request |-> [kind |-> kind, for_epoch |-> epoch,
                epoch |-> RequestEpoch(kind, epoch), at |-> at],
   gap |-> IF c.request.kind = "none" THEN min_interval ELSE at - c.request.at]

\* A call of a function with its arguments, before it has returned.
Pending(op, args) == [op |-> op, args |-> args, done |-> FALSE, result |-> <<>>]

\* The call once the function has returned.
Returned(c, result) == [c EXCEPT !.done = TRUE, !.result = result]

NoCall == Pending("none", <<>>)

\* The processes that call save_rewards on the one master file.
WriterNames == {"backfill", "monitor"}

NoJob == [withdrawals |-> <<>>, proposals |-> <<>>, epoch |-> 0]

\* No process is inside save_rewards, and the file is whole.
NoWriters ==
  [pc       |-> [p \in WriterNames |-> "idle"],
   job      |-> [p \in WriterNames |-> NoJob],
   combined |-> [p \in WriterNames |-> <<>>],
   stale    |-> [p \in WriterNames |-> FALSE],
   merged   |-> [p \in WriterNames |-> NoJob],
   torn     |-> FALSE]

\* No file, no process running, no request made.
Idle ==
  /\ client = NewClient
  /\ writers = NoWriters
  /\ master = NoFile
  /\ finalized = TipAt(0)
  /\ bf_state = "Idle"
  /\ next_epoch = 0
  /\ override_start_epoch = 0
  /\ collected = FALSE
  /\ discord_webhook = ""
  /\ notifications = 0
  /\ mon_state = "Idle"
  /\ current_start_epoch = 0
  /\ last = Step("init", 0, 0, FALSE)

Init == Idle /\ call = NoCall

BackfillVars == <<bf_state, next_epoch, override_start_epoch, collected,
                  discord_webhook, notifications>>
MonitorVars == <<mon_state, current_start_epoch>>

(***************************************************************************)
(* ParquetWriter.save_rewards called on its own, with any records.         *)
(***************************************************************************)
SaveRewards ==
  /\ \E c \in SaveCalls :
       /\ master' = Saved(master, c)
       /\ last' = Step("save", c.epoch, 0, FALSE)
  /\ UNCHANGED <<finalized, BackfillVars, MonitorVars>>
  /\ UNCHANGED <<client, call, writers>>

MergeSpec == Init /\ [][SaveRewards]_vars

(***************************************************************************)
(* save_rewards step by step, in two processes that write the same master  *)
(* file: a backfiller merging epoch 1 and a monitor merging epoch 2.  The   *)
(* code takes no lock on the file and writes it in place; the steps of a   *)
(* call are the read of the existing file and the write of the combined    *)
(* frame, and a process can die between them or inside the write.          *)
(***************************************************************************)
WriterEpoch(p) == IF p = "backfill" THEN 1 ELSE 2

\* The calls of a writer: no record, or one record of its epoch.
WriterCalls(p) ==
  {c \in SaveCalls :
     /\ c.epoch = WriterEpoch(p)
     /\ Len(c.withdrawals) + Len(c.proposals) <= 1
     /\ \A r \in Range(c.withdrawals \o c.proposals) : r.epoch = c.epoch /\ ~r.is_exit}

\* A read that finds no file, whatever is on disk.
ReadNoFile(file) == NoFile

\* if master_filepath.exists(): existing_df = pd.read_parquet(master_filepath)
ReadMaster(file) == file

\* save_rewards up to combined_df: nothing to save, or the read raises on a
\* file cut short, or the frame to write is built from what was read.
MergeLoad ==
  \E p \in WriterNames : \E c \in WriterCalls(p) :
    /\ writers.pc[p] = "idle"
    /\ IF c.withdrawals \o c.proposals = <<>>
       THEN /\ last' = Step("merge_nothing", c.epoch, 0, FALSE)
            /\ UNCHANGED writers
       ELSE IF master.exists /\ writers.torn
       THEN /\ last' = Step("merge_raised", c.epoch, 0, FALSE)
            /\ UNCHANGED writers
       ELSE /\ last' = Step("merge_load", c.epoch, 0, FALSE)
            /\ writers' = [writers EXCEPT
                 !.pc[p] = "loaded",
                 !.job[p] = c,
                 !.combined[p] = Saved(ReadMaster(master), c).rows,
                 !.stale[p] = FALSE]
    /\ UNCHANGED <<master, finalized, BackfillVars, MonitorVars, client, call>>

\* combined_df.to_parquet(master_filepath, index=False), run to its end: the
\* file holds the combined frame, whatever another process wrote meanwhile.
MergeWrite ==
  \E p \in WriterNames :
    /\ writers.pc[p] = "loaded"
    /\ master' = [exists |-> TRUE, rows |-> writers.combined[p]]
    /\ writers' = [writers EXCEPT
         !.pc[p] = "idle",
         !.merged[p] = writers.job[p],
         !.stale = [q \in WriterNames |-> q # p /\ writers.pc[q] = "loaded"],
         !.torn = FALSE]
    /\ last' = Step("merge_write", writers.job[p].epoch, 0, FALSE)
    /\ UNCHANGED <<finalized, BackfillVars, MonitorVars, client, call>>

\* The process dies after the read: before to_parquet has opened the file,
\* or inside to_parquet, which has truncated the file and written a part.
WriterCrash ==
  \E p \in WriterNames : \E in_write \in BOOLEAN :
    /\ writers.pc[p] = "loaded"
    /\ master' = IF in_write THEN [master EXCEPT !.exists = TRUE] ELSE master
    /\ writers' = [writers EXCEPT
         !.pc[p] = "crashed",
         !.stale[p] = FALSE,
         !.torn = writers.torn \/ in_write]
    /\ last' = Step("crash", writers.job[p].epoch, 0, FALSE)
    /\ UNCHANGED <<finalized, BackfillVars, MonitorVars, client, call>>

\* The process is started again.
WriterRestart ==
  \E p \in WriterNames :
    /\ writers.pc[p] = "crashed"
    /\ writers' = [writers EXCEPT !.pc[p] = "idle"]
    /\ last' = Step("restart", 0, 0, FALSE)
    /\ UNCHANGED <<master, finalized, BackfillVars, MonitorVars, client, call>>

WriterNext ==
  \/ MergeLoad
  \/ MergeWrite
  \/ WriterCrash
  \/ WriterRestart

WriterSpec == Init /\ [][WriterNext]_vars

(***************************************************************************)
(* The chain finalizes further epochs.                                     *)
(***************************************************************************)
TipAdvance ==
  /\ finalized < MaxFinalized
  /\ finalized' = finalized + EPOCH_INTERVAL
  /\ last' = Step("tip", 0, 0, FALSE)
  /\ UNCHANGED <<master, BackfillVars, MonitorVars>>
  /\ UNCHANGED <<client, call, writers>>

(***************************************************************************)
(* RewardsBackfiller.                                                      *)
(***************************************************************************)
\* A start at the last epoch of the file itself, the interval not added.
LastEpochAgain(file) ==
  IF file.exists /\ file.rows # <<>>
  THEN MaxOf({file.rows[i].epoch : i \in 1..Len(file.rows)})
  ELSE fallback_epoch

\* An unreadable file also gives the fallback; a file is readable here.
load_last_epoch(file) ==
  IF file.exists /\ file.rows # <<>>
  THEN MaxOf({file.rows[i].epoch : i \in 1..Len(file.rows)}) + EPOCH_INTERVAL
  ELSE fallback_epoch

\* if hasattr(self, 'override_start_epoch') and self.override_start_epoch
StartEpoch(override, file) ==
  IF override # 0 THEN override ELSE load_last_epoch(file)

\* run(), up to the loop.
BackfillStart ==
  /\ NoWriterRuns
  /\ \E override \in {0, fallback_epoch} :
       /\ override_start_epoch' = override
       /\ next_epoch' = StartEpoch(override, master)
  /\ discord_webhook' = ""
  /\ bf_state' = "Running"
  /\ collected' = FALSE
  /\ notifications' = 0
  /\ last' = Step("bf_start", 0, 0, FALSE)
  /\ UNCHANGED <<master, finalized, MonitorVars>>
  /\ UNCHANGED <<client, call, writers>>

\* A completion test that takes the reply 0 for an epoch.
CompleteOnAnyReply(next, current_epoch) == next > current_epoch

\* if next_epoch > current_epoch and current_epoch > 0
BackfillComplete(next, current_epoch) == next > current_epoch /\ current_epoch > 0

\* The POSTs made so far, after send_discord_notification: it reads the
\* environment and makes none without a webhook; a POST that fails is logged
\* and not repeated.
send_discord_notification(webhook, sent) ==
  IF webhook = "" THEN sent ELSE sent + 1

\* An iteration that ends the loop: the notification, then break.
BackfillDone ==
  /\ bf_state = "Running"
  /\ \E current_epoch \in LatestEpochReplies :
       /\ BackfillComplete(next_epoch, current_epoch)
       /\ last' = Step("bf_done", 0, current_epoch, FALSE)
  /\ \E webhook \in {"", "hook"} :
       /\ discord_webhook' = webhook
       /\ notifications' = send_discord_notification(webhook, notifications)
  /\ bf_state' = "Done"
  /\ UNCHANGED <<master, finalized, next_epoch, override_start_epoch, collected,
                 MonitorVars>>
  /\ UNCHANGED <<client, call, writers>>

\* A loop that stays at the epoch it has collected.
StayAtEpoch(epoch) == epoch

\* next_epoch += self.epoch_interval, after a cycle that returned.
BackfillAdvance(epoch) == epoch + EPOCH_INTERVAL

\* An iteration that collects next_epoch and moves on.  With the finalized
\* epoch unknown (0) the loop variable is capped at MaxFinalized.
BackfillCollect ==
  /\ bf_state = "Running"
  /\ \E current_epoch \in LatestEpochReplies :
       /\ ~BackfillComplete(next_epoch, current_epoch)
       /\ next_epoch <= MaxFinalized
       /\ \E c \in Cycles[next_epoch] :
            /\ master' = collect_rewards(master, next_epoch, c)
            /\ next_epoch' = BackfillAdvance(next_epoch)
            /\ last' = Step("bf_collect", next_epoch, current_epoch, c.fetch_failed)
  /\ collected' = TRUE
  /\ UNCHANGED <<finalized, bf_state, override_start_epoch, discord_webhook,
                 notifications, MonitorVars>>
  /\ UNCHANGED <<client, call, writers>>

\* An iteration in which an exception reaches the loop's except clause before
\* the ledger is written (the table or the file cannot be read): wait, retry.
BackfillRetry ==
  /\ bf_state = "Running"
  /\ \E current_epoch \in LatestEpochReplies :
       /\ ~BackfillComplete(next_epoch, current_epoch)
       /\ last' = Step("bf_retry", next_epoch, current_epoch, FALSE)
  /\ UNCHANGED <<master, finalized, BackfillVars, MonitorVars>>
  /\ UNCHANGED <<client, call, writers>>

\* main(): an exception raised before the loop is entered (the constructor
\* cannot read EPOCH_INTERVAL as a number, or cannot make the output
\* directory) reaches the except clause of main: logger.error, sys.exit(1).
BackfillFatal ==
  /\ NoWriterRuns
  /\ \E webhook \in {"", "hook"} : discord_webhook' = webhook
  /\ bf_state' = "Failed"
  /\ next_epoch' = 0
  /\ override_start_epoch' = 0
  /\ collected' = FALSE
  /\ notifications' = 0
  /\ last' = Step("bf_fatal", 0, 0, FALSE)
  /\ UNCHANGED <<master, finalized, MonitorVars>>
  /\ UNCHANGED <<client, call, writers>>

\* KeyboardInterrupt: the loop breaks.
BackfillInterrupt ==
  /\ bf_state = "Running"
  /\ bf_state' = "Idle"
  /\ last' = Step("bf_interrupt", 0, 0, FALSE)
  /\ UNCHANGED <<master, finalized, next_epoch, override_start_epoch, collected,
                 discord_webhook, notifications, MonitorVars>>
  /\ UNCHANGED <<client, call, writers>>

(***************************************************************************)
(* RewardsMonitor.                                                         *)
(***************************************************************************)
MonitorStart ==
  /\ NoWriterRuns
  /\ mon_state' = "Running"
  /\ current_start_epoch' = start_epoch
  /\ last' = Step("mon_start", 0, 0, FALSE)
  /\ UNCHANGED <<master, finalized, BackfillVars>>
  /\ UNCHANGED <<client, call, writers>>

\* A wait test that lets a cycle start up to one interval ahead of the tip.
NotYetWithinInterval(start, latest_epoch) == latest_epoch + EPOCH_INTERVAL < start

\* if latest_epoch < current_start_epoch: sleep, continue
MonitorNotYet(start, latest_epoch) == latest_epoch < start

MonitorWait ==
  /\ mon_state = "Running"
  /\ \E latest_epoch \in LatestEpochReplies :
       /\ MonitorNotYet(current_start_epoch, latest_epoch)
       /\ last' = Step("mon_wait", 0, latest_epoch, FALSE)
  /\ UNCHANGED <<master, finalized, BackfillVars, MonitorVars>>
  /\ UNCHANGED <<client, call, writers>>

\* current_start_epoch = latest_epoch + self.epoch_interval
MonitorAdvance(epoch, latest_epoch) == latest_epoch + EPOCH_INTERVAL

MonitorCollect ==
  /\ mon_state = "Running"
  /\ \E latest_epoch \in LatestEpochReplies :
       /\ ~MonitorNotYet(current_start_epoch, latest_epoch)
       /\ \E c \in Cycles[current_start_epoch] :
            /\ master' = collect_rewards(master, current_start_epoch, c)
            /\ last' = Step("mon_collect", current_start_epoch, latest_epoch,
                            c.fetch_failed)
       /\ current_start_epoch' = MonitorAdvance(current_start_epoch, latest_epoch)
  /\ UNCHANGED <<finalized, mon_state, BackfillVars>>
  /\ UNCHANGED <<client, call, writers>>

MonitorRetry ==
  /\ mon_state = "Running"
  /\ \E latest_epoch \in LatestEpochReplies :
       /\ ~MonitorNotYet(current_start_epoch, latest_epoch)
       /\ last' = Step("mon_retry", current_start_epoch, latest_epoch, FALSE)
  /\ UNCHANGED <<master, finalized, BackfillVars, MonitorVars>>
  /\ UNCHANGED <<client, call, writers>>

MonitorInterrupt ==
  /\ mon_state = "Running"
  /\ mon_state' = "Idle"
  /\ last' = Step("mon_interrupt", 0, 0, FALSE)
  /\ UNCHANGED <<master, finalized, current_start_epoch, BackfillVars>>
  /\ UNCHANGED <<client, call, writers>>

Next ==
  \/ TipAdvance
  \/ BackfillStart
  \/ BackfillFatal
  \/ BackfillDone
  \/ BackfillCollect
  \/ BackfillRetry
  \/ BackfillInterrupt

\* The backfiller, run and run again, as the only writer of the ledger.
Spec == Init /\ [][Next]_vars

MonitorNext ==
  \/ TipAdvance
  \/ MonitorStart
  \/ MonitorWait
  \/ MonitorCollect
  \/ MonitorRetry
  \/ MonitorInterrupt

\* The monitor, run and run again, as the only writer of the ledger.
MonitorSpec == Init /\ [][MonitorNext]_vars

\* The backfiller left to run: no interrupt.  The loop goes on to its next
\* iteration after every sleep; a cycle that can be run eventually returns,
\* and the finalized epoch is eventually read.
LiveNext ==
  \/ TipAdvance
  \/ BackfillStart
  \/ BackfillDone
  \/ BackfillCollect
  \/ BackfillRetry

LiveSpec ==
  /\ Init /\ [][LiveNext]_vars
  /\ WF_vars(BackfillCollect)
  /\ WF_vars(BackfillDone)

(***************************************************************************)
(* Properties of the ledger under save_rewards (MergeSpec).                *)
(***************************************************************************)
\* The rows of a sequence with the given epoch, as a set.
EpochRows(rows, epoch) == {rows[i] : i \in {j \in 1..Len(rows) : rows[j].epoch = epoch}}

\* How many rows of a sequence have the given epoch.
EpochCount(rows, epoch) == Cardinality({j \in 1..Len(rows) : rows[j].epoch = epoch})

\* The epochs of the rows of a sequence.
EpochsOf(rows) == {rows[i].epoch : i \in 1..Len(rows)}

\* No two rows of a sequence have the same key.
UniqueKeys(rows) ==
  \A i, j \in 1..Len(rows) : KeyOf(rows[i]) = KeyOf(rows[j]) => i = j

\* The records a call hands to save_rewards.
NewEvents(c) == c.withdrawals \o c.proposals

\* C1: after any sequence of save_rewards calls that starts without a ledger
\* file, the first call and calls whose records repeat a key included, the
\* ledger never holds two records with equal
\* (epoch, validator_index, record_type, amount).
C1_UniqueKeys == UniqueKeys(master.rows)

\* C2: in every ledger state and for every call, save_rewards called twice
\* in a row with the same records and epoch leaves the same rows in the same
\* order as the one call.
C2_Idempotent ==
  \A c \in SaveCalls : Saved(Saved(master, c), c) = Saved(master, c)

\* C3: after save_rewards(new_events, E) on an existing ledger, for every
\* new_events, the empty list included, the rows of epoch E are exactly the
\* distinct-key rows of epoch E of new_events.
C3_Overwrite ==
  master.exists =>
    \A c \in SaveCalls :
      LET after == Saved(master, c).rows
          fresh == drop_duplicates(NewEvents(c))
      IN  /\ EpochRows(after, c.epoch) = EpochRows(fresh, c.epoch)
          /\ EpochCount(after, c.epoch) = EpochCount(fresh, c.epoch)

\* C4: save_rewards(new_events, E) leaves the rows of every other epoch that
\* were in the ledger untouched: for every epoch E2 # E each such row is still
\* there with all its fields, no other row has taken its key, and there are
\* as many rows with the keys of the old rows of E2 as before.
C4_Frame ==
  \A c \in SaveCalls :
    LET before == master.rows
        after  == Saved(master, c).rows
    IN  \A e \in EpochsOf(before) \ {c.epoch} :
          LET old_keys == {KeyOf(r) : r \in EpochRows(before, e)}
              kept     == {j \in 1..Len(after) : KeyOf(after[j]) \in old_keys}
          IN  /\ {after[j] : j \in kept} = EpochRows(before, e)
              /\ Cardinality(kept) = EpochCount(before, e)

\* C5, as stated: an epoch that has a row in the ledger before a call of
\* save_rewards still has one after it.
C5_EpochsOnlyGrow ==
  \A c \in SaveCalls : EpochsOf(master.rows) \subseteq EpochsOf(Saved(master, c).rows)

\* C5, amended: every epoch other than the epoch E the call is for keeps a
\* row, and the rows that go are rows of epoch E or rows whose key another
\* row that stays has: every key of a row of another epoch is still in the
\* ledger after the call.
C5_OtherEpochsKept ==
  \A c \in SaveCalls :
    LET before == master.rows
        after  == Saved(master, c).rows
    IN  \A i \in 1..Len(before) :
          before[i].epoch # c.epoch =>
            \E j \in 1..Len(after) : KeyOf(after[j]) = KeyOf(before[i])

\* A ledger with rows of two epochs on which a call for one of them, with
\* records of the other only, removes the epoch it is for and keeps the other.
C5_EpochRemoved ==
  \E c \in SaveCalls :
    LET after == Saved(master, c).rows
    IN  /\ c.epoch \in EpochsOf(master.rows)
        /\ c.epoch \notin EpochsOf(after)
        /\ EpochsOf(master.rows) \ {c.epoch} # {}
        /\ EpochsOf(master.rows) \ {c.epoch} \subseteq EpochsOf(after)

(***************************************************************************)
(* Properties of the backfiller (Spec, LiveSpec).                          *)
(***************************************************************************)
\* C6: when a withdrawals or proposals request of some chunk fails in the
\* cycle for epoch E, the loop does not move past E: after that cycle
\* next_epoch is still E.
C6_RetrySameEpoch ==
  (last.op = "bf_collect" /\ last.fetch_failed) => next_epoch = last.epoch

\* C7, its part on progress: a running backfill loop eventually reaches Done.
C7_ReachesDone == (bf_state = "Running") ~> (bf_state = "Done")

\* C7, its part on the last iteration: the loop reaches Done only in an
\* iteration that read the finalized epoch and found next_epoch above it.
C7_DoneOnlyPastTip ==
  [][(bf_state = "Running" /\ bf_state' = "Done")
       => (last'.polled = finalized /\ last'.polled > 0 /\ next_epoch > last'.polled)]_vars

\* C7, as stated: the backfill loop terminates, only past the finalized
\* epoch, and has emitted the completion notification exactly once when it
\* stops and none before.
C7_NotifiedOnce ==
  /\ C7_ReachesDone
  /\ C7_DoneOnlyPastTip
  /\ [](bf_state = "Running" => notifications = 0)
  /\ [](bf_state = "Done" => notifications = 1)

\* C7, amended: the backfill loop terminates, only past the finalized epoch;
\* when it stops it has made one completion POST if a webhook is set and none
\* if no webhook is set, and it makes none before.
C7_Terminates ==
  /\ C7_ReachesDone
  /\ C7_DoneOnlyPastTip
  /\ [](bf_state = "Running" => notifications = 0)
  /\ [](bf_state = "Done" =>
          notifications = IF discord_webhook = "" THEN 0 ELSE 1)

\* A run that collected, found next_epoch past the tip and notified.
C7_DoneNotified ==
  /\ bf_state = "Done"
  /\ collected
  /\ notifications = 1
  /\ next_epoch > finalized

\* C8: an iteration of the backfill loop in which get_latest_epoch returned 0
\* neither ends the loop nor runs a collection cycle.
C8_ZeroIsNotReady ==
  last.polled = 0 => last.op \notin {"bf_collect", "bf_done"}

\* C9: without a start-epoch override, the first epoch a backfill run
\* collects is the largest epoch of the ledger's rows plus the interval if
\* the file exists and has rows, and the fallback epoch otherwise.
C9_FirstEpoch ==
  [][(bf_state = "Running" /\ ~collected /\ override_start_epoch = 0
        /\ last'.op = "bf_collect")
       => IF master.exists /\ master.rows # <<>>
          THEN \E i \in 1..Len(master.rows) :
                 /\ \A j \in 1..Len(master.rows) :
                      master.rows[j].epoch <= master.rows[i].epoch
                 /\ last'.epoch = master.rows[i].epoch + EPOCH_INTERVAL
          ELSE last'.epoch = fallback_epoch]_vars

\* A run without override has collected the epoch one interval after a
\* withdrawal of the last epoch of the fallback epoch's window: only the
\* first cycle of a run that found that withdrawal as the ledger's last row
\* by epoch is for this epoch.
C9_StartedAfterWithdrawal ==
  /\ bf_state = "Running"
  /\ override_start_epoch = 0
  /\ last.op = "bf_collect"
  /\ last.epoch = WithdrawalsQueryEpoch(fallback_epoch) + EPOCH_INTERVAL
  /\ last.polled >= last.epoch

(***************************************************************************)
(* Properties of the monitor (MonitorSpec).                                *)
(***************************************************************************)
\* The steps that are one iteration of the monitor's loop.
MonitorIterations == {"mon_wait", "mon_collect", "mon_retry"}

\* C10: the monitor's loop leaves Running only by an interrupt; an iteration
\* that finds current_start_epoch above the latest epoch it read changes
\* neither the ledger nor current_start_epoch, and goes on waiting; a cycle
\* for epoch E runs only in an iteration that read a latest epoch >= E.
C10_MonitorWaits ==
  /\ [][(mon_state = "Running" /\ mon_state' # "Running")
          => last'.op = "mon_interrupt"]_vars
  /\ [][(last'.op \in MonitorIterations /\ current_start_epoch > last'.polled)
          => /\ last'.op = "mon_wait"
             /\ master' = master
             /\ current_start_epoch' = current_start_epoch
             /\ mon_state' = "Running"]_vars
  /\ [](last.op = "mon_collect" => last.polled >= last.epoch)

\* The monitor has collected an epoch, moved one interval past the tip and
\* waited there.
C10_WaitedPastTip ==
  /\ mon_state = "Running"
  /\ master.exists
  /\ last.op = "mon_wait"
  /\ last.polled = finalized
  /\ current_start_epoch > finalized

(***************************************************************************)
(* BeaconchainAPI on its own: time passes and requests are made (RateSpec). *)
(***************************************************************************)
\* The variables of the ledger and of the two loops.
SystemVars == <<master, finalized, BackfillVars, MonitorVars, last, writers>>

\* The epochs requests are made for.
RequestEpochs == {fallback_epoch, fallback_epoch + EPOCH_INTERVAL}

\* Time passes between two requests.
ClockTick ==
  /\ client.now < MaxTime
  /\ client' = [client EXCEPT !.now = @ + 1]
  /\ UNCHANGED <<SystemVars, call>>

\* get_withdrawals, get_proposals, get_execution_block, get_epoch_slots:
\* _wait_for_rate_limit, then the request.
GatedRequest ==
  /\ \E kind \in GatedRequests, epoch \in RequestEpochs :
       LET at == GateOpensAt(client.now, client.last_request_time)
       IN  /\ at <= MaxTime
           /\ client' = Issued(client, kind, epoch, at, TRUE)
  /\ UNCHANGED <<SystemVars, call>>

\* get_validator_statuses, get_latest_epoch: the request, at once.
UngatedRequest ==
  /\ \E kind \in UngatedRequests, epoch \in RequestEpochs :
       client' = Issued(client, kind, epoch, client.now, FALSE)
  /\ UNCHANGED <<SystemVars, call>>

RateNext ==
  \/ ClockTick
  \/ GatedRequest
  \/ UngatedRequest

RateSpec == Init /\ [][RateNext]_vars

\* C11: any two consecutive requests of one client, of whatever kind, are
\* issued at least 1/rate_limit apart.
C11_AllRequestsGated == client.gap >= min_interval

\* C12: get_withdrawals for epoch E sends epoch = E + 99 (299 for E = 200),
\* get_proposals for epoch E sends epoch = E.
C12_QueryEpochs ==
  /\ client.request.kind = "withdrawals"
       => /\ client.request.epoch = client.request.for_epoch + 99
          /\ client.request.for_epoch = 200 => client.request.epoch = 299
  /\ client.request.kind = "proposals"
       => client.request.epoch = client.request.for_epoch

\* A withdrawals request for epoch 200 has been issued.
C12_Queried200 ==
  /\ client.request.kind = "withdrawals"
  /\ client.request.for_epoch = 200

(***************************************************************************)
(* The functions called on their own, with any arguments (CallSpec).       *)
(***************************************************************************)
\* The statuses a validator can be reported in.
AllStatuses ==
  {"active_ongoing", "active_exiting", "exited_unslashed", "exited_slashed",
   "withdrawal_possible", "withdrawal_done"}

\* The maps get_validator_statuses can return for validators 1 and 2.
StatusMaps ==
  UNION {[vs -> AllStatuses] : vs \in SUBSET {1, 2}}

\* The withdrawals of a reply: validators 1 and 2, a skim and a full balance.
AnyWithdrawals ==
  {[validatorindex |-> v, amount |-> a, epoch |-> fallback_epoch] :
     v \in {1, 2}, a \in {1, 32}}

\* process_withdrawals(withdrawals_data, epoch, validator_statuses)
ProcessWithdrawals ==
  /\ call.op = "process_withdrawals" /\ ~call.done
  /\ call' = Returned(call, process_withdrawals(call.args.data, call.args.statuses))
  /\ UNCHANGED <<SystemVars, client>>

\* The proposals of a reply with the replies to their block requests: no
\* block number, a failed request, no data, a block with or without a relay.
AnyProposals ==
  {[exec_block_number |-> 0, block |-> Failed],
   [exec_block_number |-> 1, block |-> Failed],
   [exec_block_number |-> 1, block |-> [ok |-> TRUE, data |-> <<>>]]}
  \cup {[exec_block_number |-> 1,
         block |-> [ok |-> TRUE,
                    data |-> <<[proposerIndex |-> 1, epoch |-> fallback_epoch,
                                relay |-> r, blockMevReward |-> 2,
                                producerReward |-> 1]>>]] :
          r \in {"", "flashbots"}}

\* process_proposals(proposals_data, epoch)
ProcessProposals ==
  /\ call.op = "process_proposals" /\ ~call.done
  /\ call' = Returned(call, process_proposals(call.args.data))
  /\ UNCHANGED <<SystemVars, client>>

\* The replies to the requests of a chunk with validator 1: the statuses
\* request fails or gives a map, the withdrawals and proposals requests fail
\* or give at most one item.
AnyChunkReplies ==
  {[statuses |-> st, withdrawals |-> w, proposals |-> p] :
     st \in {Failed} \cup {[ok |-> TRUE, data |-> m] :
                             m \in UNION {[vs -> AllStatuses] : vs \in SUBSET {1}}},
     w \in {[ok |-> TRUE, data |-> d] :
              d \in SeqsUpTo({x \in AnyWithdrawals : x.validatorindex = 1}, 1)},
     p \in {Failed} \cup {[ok |-> TRUE, data |-> d] :
                             d \in SeqsUpTo(AnyProposals, 1)}}
  \cup {[statuses |-> st, withdrawals |-> Failed, proposals |-> NotRequested] :
          st \in {Failed, [ok |-> TRUE, data |-> <<>>]}}

\* The replies to the requests of a chunk with validator 2, which has left
\* and has withdrawn its balance.
ExitedChunkReply ==
  [statuses    |-> [ok |-> TRUE, data |-> [v \in {2} |-> "withdrawal_done"]],
   withdrawals |-> [ok |-> TRUE,
                    data |-> <<[validatorindex |-> 2, amount |-> 32,
                                epoch |-> fallback_epoch]>>],
   proposals   |-> [ok |-> TRUE, data |-> <<>>]]

\* collect_rewards(epoch)
CollectRewards ==
  /\ call.op = "collect_rewards" /\ ~call.done
  /\ call' = Returned(call, collect_rewards(NoFile, call.args.epoch,
                                            Collected(call.args.replies)))
  /\ UNCHANGED <<SystemVars, client>>

\* The rows of a validator table: blank, short, full with and without the
\* pool column, with a blank index, with an index in spaces.
AnyRows ==
  {<<>>,
   <<"1">>,
   <<"1", "pk", "t">>,
   <<"1", "pk", "t", "n">>,
   <<"2", "pk", "t", "n", "mp">>,
   <<" ", "pk", "t", "n">>,
   <<" 3 ", "pk", "t", "n">>}

Header == <<"index", "pubkey", "type", "node", "minipool">>

\* The tables: not found, empty, a header and up to MaxRows rows.
AnyTables ==
  {NoTable, [found |-> TRUE, rows |-> <<>>]}
  \cup {[found |-> TRUE, rows |-> <<Header>> \o rows] :
          rows \in SeqsUpTo(AnyRows, MaxRows)}

\* load_validators()
LoadValidators ==
  /\ call.op = "load_validators" /\ ~call.done
  /\ call' = Returned(call, load_validators(call.args.table))
  /\ UNCHANGED <<SystemVars, client>>

\* chunk_validators(chunk_size) on a reader that has not loaded yet: loads,
\* then slices.
ChunkValidators ==
  /\ call.op = "chunk_validators" /\ ~call.done
  /\ LET loaded == load_validators(call.args.table)
     IN  call' = Returned(call,
                   [ok         |-> loaded.ok,
                    validators |-> loaded.validators,
                    chunks     |-> IF loaded.ok
                                   THEN ChunksFrom(IndexList(loaded.validators), 1,
                                                   call.args.chunk_size)
                                   ELSE <<>>])
  /\ UNCHANGED <<SystemVars, client>>

(***************************************************************************)
(* reward_utils.  A bond type is the text of the table's type column: a     *)
(* number, here in tenths, or a text that is no number.                     *)
(***************************************************************************)
NotANumber == [numeric |-> FALSE, tenths |-> 0]

TypeOf(tenths) == [numeric |-> TRUE, tenths |-> tenths]

\* int(float(validator_type)) of a number that is not negative
IntOfType(validator_type) == validator_type.tenths \div 10

\* int(bonded + borrowed * commission): the integers become doubles first
WithCommission(bonded, borrowed, commission) ==
  IntOf(FloatAdd(RoundToDouble(bonded, 0),
                 FloatMul(RoundToDouble(borrowed, 0), commission)))

\* adjust_reward(amount, validator_type)
adjust_reward(amount, validator_type) ==
  IF ~validator_type.numeric THEN amount
  ELSE LET t == IntOfType(validator_type)
       IN  IF 8 <= t /\ t < 15
           THEN LET bonded   == ShiftRight(amount, 2)
                    borrowed == Sub(amount, bonded)
                IN  WithCommission(bonded, borrowed, Commission8)
           ELSE IF 16 <= t /\ t < 17
           THEN LET bonded   == ShiftRight(amount, 1)
                    borrowed == Sub(amount, bonded)
                IN  WithCommission(bonded, borrowed, Commission16)
           ELSE amount

\* The bond types read: below, at and above the ends of the two ranges, a
\* standard validator, and a text that is no number.
AnyTypes ==
  {TypeOf(t) : t \in {70, 80, 100, 149, 150, 160, 169, 170, 320}} \cup {NotANumber}

\* The amounts: small ones, and amounts in wei and in gwei: 0.1 ETH and
\* 7 wei, a block reward, 32 ETH.
AnyAmounts ==
  {DigitsOf(n) : n \in (0..MaxAmount) \cup {1000}}
  \cup {Decimal(<<1, 0, 0, 0, 0, 0, 0, 0, 0, 0, 0, 0, 0, 0, 0, 0, 0, 7>>),
   Decimal(<<5, 3, 1, 8, 2, 7, 3, 4, 6, 5, 0, 4, 1, 2, 3, 4, 5>>),
   Decimal(<<3, 2, 0, 0, 0, 0, 0, 0, 0, 0, 0>>)}

\* adjust_reward(amount, validator_type)
AdjustReward ==
  /\ call.op = "adjust_reward" /\ ~call.done
  /\ call' = Returned(call, adjust_reward(call.args.amount, call.args.validator_type))
  /\ UNCHANGED <<SystemVars, client>>

(***************************************************************************)
(* The aggregator: invoice.py and generate_invoice.py.                      *)
(***************************************************************************)
\* get_bonded_principal(amount, validator_type)
get_bonded_principal(amount, validator_type) ==
  IF ~validator_type.numeric THEN amount
  ELSE LET t == IntOfType(validator_type)
       IN  IF 8 <= t /\ t < 15 THEN ShiftRight(amount, 2)
           ELSE IF 16 <= t /\ t < 17 THEN ShiftRight(amount, 1)
           ELSE amount

\* exit_threshold_gwei = 8 * 10**9
exit_threshold_gwei == Mul(DigitsOf(8), DigitsOf(10^9))

\* principal_gwei = 32 * 10**9
principal_gwei == Mul(DigitsOf(32), DigitsOf(10^9))

\* The parquet file was not found.
NotFound == [found |-> FALSE]

\* df[(df['epoch'] >= fromBlock) & (df['epoch'] <= toBlock)]
RECURSIVE FilterEpochs(_, _, _)
FilterEpochs(rows, fromBlock, toBlock) ==
  IF rows = <<>> THEN <<>>
  ELSE (IF Head(rows).epoch >= fromBlock /\ Head(rows).epoch <= toBlock
        THEN <<Head(rows)>> ELSE <<>>)
         \o FilterEpochs(Tail(rows), fromBlock, toBlock)

\* df[df['record_type'] == record_type]
RECURSIVE OfType(_, _)
OfType(rows, record_type) ==
  IF rows = <<>> THEN <<>>
  ELSE (IF Head(rows).record_type = record_type THEN <<Head(rows)>> ELSE <<>>)
         \o OfType(Tail(rows), record_type)

\* {'amount': row['amount'], 'epoch': ..., 'node': ..., 'type': row['validator_type']}
RecordOf(row) ==
  [amount |-> row.amount, epoch |-> row.epoch, node |-> row.node,
   type   |-> row.validator_type]

\* An exit by the flag alone, whatever the amount.
ExitByFlagAlone(row, has_exit_flag) ==
  IF has_exit_flag THEN row.is_exit ELSE Less(principal_gwei, row.amount)

\* fetch_data: is_exit of a withdrawal row
IsExitWithdrawal(row, has_exit_flag) ==
  IF has_exit_flag
  THEN row.is_exit /\ ~Less(row.amount, exit_threshold_gwei)
  ELSE Less(principal_gwei, row.amount)

\* Exits kept whole: no cap at 32 ETH and no record for the excess.
RECURSIVE TrackExitsWhole(_, _)
TrackExitsWhole(rows, has_exit_flag) ==
  IF rows = <<>> THEN [withdrawals |-> <<>>, exits |-> <<>>]
  ELSE LET rest == TrackExitsWhole(Tail(rows), has_exit_flag)
       IN  IF IsExitWithdrawal(Head(rows), has_exit_flag)
           THEN [exits |-> <<RecordOf(Head(rows))>> \o rest.exits,
                 withdrawals |-> rest.withdrawals]
           ELSE [exits |-> rest.exits,
                 withdrawals |-> <<RecordOf(Head(rows))>> \o rest.withdrawals]

\* fetch_data: for _, row in withdrawals_df.iterrows()
RECURSIVE TrackExits(_, _)
TrackExits(rows, has_exit_flag) ==
  IF rows = <<>> THEN [withdrawals |-> <<>>, exits |-> <<>>]
  ELSE LET row    == Head(rows)
           rest   == TrackExits(Tail(rows), has_exit_flag)
           record == RecordOf(row)
       IN  IF IsExitWithdrawal(row, has_exit_flag)
           THEN [exits |->
                   <<[record EXCEPT !.amount =
                        IF Less(principal_gwei, row.amount)
                        THEN principal_gwei ELSE row.amount]>> \o rest.exits,
                 withdrawals |->
                   (IF Less(principal_gwei, row.amount)
                    THEN <<[record EXCEPT !.amount = Sub(row.amount, principal_gwei)]>>
                    ELSE <<>>) \o rest.withdrawals]
           ELSE [exits |-> rest.exits, withdrawals |-> <<record>> \o rest.withdrawals]

\* fetch_data(fromBlock, toBlock, parquet_file)
fetch_data(fromBlock, toBlock, file) ==
  IF ~file.found THEN NotFound
  ELSE LET df      == FilterEpochs(file.rows, fromBlock, toBlock)
           p       == OfType(df, "proposal")
           tracked == TrackExits(OfType(df, "withdrawal"), file.has_exit_flag)
       IN  [found       |-> TRUE,
            proposals   |-> [i \in 1..Len(p) |-> RecordOf(p[i])],
            withdrawals |-> tracked.withdrawals,
            exits       |-> tracked.exits]

\* df.apply(lambda x: adjust_reward(x['amount'], x['type']), axis=1)
RewardAmounts(records) ==
  [i \in 1..Len(records) |->
     [records[i] EXCEPT !.amount = adjust_reward(records[i].amount, records[i].type)]]

\* Exits adjusted as rewards are.
ExitsWithCommission(exits) == RewardAmounts(exits)

\* exits_df.apply(lambda x: get_bonded_principal(x['amount'], x['type']), axis=1)
ExitAmounts(exits) ==
  [i \in 1..Len(exits) |->
     [exits[i] EXCEPT !.amount = get_bonded_principal(exits[i].amount, exits[i].type)]]

\* convert_wei_to_eth(wei): wei / 10**18
convert_wei_to_eth(wei) == TrueDiv(wei, 6)

\* convert_gwei_to_eth(gwei): gwei / 10**9
convert_gwei_to_eth(gwei) == TrueDiv(gwei, 3)

\* proposals_df['amount'].apply(convert_wei_to_eth)
WeiToEth(df) == [i \in 1..Len(df) |-> [df[i] EXCEPT !.amount = convert_wei_to_eth(@)]]

\* df['amount'].apply(convert_gwei_to_eth)
GweiToEth(df) == [i \in 1..Len(df) |-> [df[i] EXCEPT !.amount = convert_gwei_to_eth(@)]]

\* df['amount'].sum(), 0 for no records
AmountSum(df) == SumOf([i \in 1..Len(df) |-> df[i].amount])

\* df.groupby(['node']).agg({'amount': 'sum'}) of one node, 0 after fillna(0)
NodeSum(df, node) == AmountSum(SelectSeq(df, LAMBDA r : r.node = node))

\* The exits counted into the grand total.
TotalsWithExits(proposals_df, withdrawals_df, exits_df) ==
  [total_proposals   |-> AmountSum(proposals_df),
   total_withdrawals |-> AmountSum(withdrawals_df),
   total_exits       |-> AmountSum(exits_df),
   grand_total       |->
     Normal(FloatAdd(FloatAdd(AmountSum(proposals_df), AmountSum(withdrawals_df)),
                     AmountSum(exits_df)))]

\* aggregate_data: the four totals, in ETH
Totals(proposals_df, withdrawals_df, exits_df) ==
  LET total_proposals   == AmountSum(proposals_df)
      total_withdrawals == AmountSum(withdrawals_df)
      total_exits       == AmountSum(exits_df)
  IN  [total_proposals   |-> total_proposals,
       total_withdrawals |-> total_withdrawals,
       total_exits       |-> total_exits,
       grand_total       |-> Normal(FloatAdd(total_proposals, total_withdrawals))]

\* aggregate_data: combined_summary, one row for each node
CombinedSummary(proposals_df, withdrawals_df, exits_df) ==
  LET all == proposals_df \o withdrawals_df \o exits_df
  IN  [node \in {all[i].node : i \in 1..Len(all)} |->
         [total_proposals   |-> NodeSum(proposals_df, node),
          total_withdrawals |-> NodeSum(withdrawals_df, node),
          total_exits       |-> NodeSum(exits_df, node)]]

\* aggregate_data(proposals, withdrawals, exits): the amount columns after
\* the adjustment, in wei for proposals and in gwei for the others, the
\* summary of the nodes and the totals in ETH.
aggregate_data(proposals, withdrawals, exits) ==
  LET proposals_df   == WeiToEth(RewardAmounts(proposals))
      withdrawals_df == GweiToEth(RewardAmounts(withdrawals))
      exits_df       == GweiToEth(ExitAmounts(exits))
  IN  [proposals        |-> RewardAmounts(proposals),
       withdrawals      |-> RewardAmounts(withdrawals),
       exits            |-> ExitAmounts(exits),
       combined_summary |-> CombinedSummary(proposals_df, withdrawals_df, exits_df),
       totals           |-> Totals(proposals_df, withdrawals_df, exits_df)]

\* run_aggregator(fromBlock, toBlock, parquet_file)
run_aggregator(fromBlock, toBlock, file) ==
  LET fetched == fetch_data(fromBlock, toBlock, file)
  IN  IF ~fetched.found THEN [found |-> FALSE, fetched |-> fetched]
      ELSE [found   |-> TRUE,
            fetched |-> fetched,
            amounts |-> aggregate_data(fetched.proposals, fetched.withdrawals,
                                       fetched.exits)]

\* calculate_earnings: exit_mask of a row
exit_mask(row, has_exit_flag) ==
  IF has_exit_flag
  THEN /\ row.record_type = "withdrawal"
       /\ row.is_exit
       /\ ~Less(row.amount, exit_threshold_gwei)
  ELSE row.record_type = "withdrawal" /\ Less(principal_gwei, row.amount)

\* df_calc[mask]
RECURSIVE Masked(_, _, _)
Masked(rows, has_exit_flag, wanted) ==
  IF rows = <<>> THEN <<>>
  ELSE (IF Head(rows).record_type = "withdrawal"
           /\ exit_mask(Head(rows), has_exit_flag) = wanted
        THEN <<Head(rows)>> ELSE <<>>)
         \o Masked(Tail(rows), has_exit_flag, wanted)

\* calculate_earnings: the excess of the exits above 32 ETH
RECURSIVE ExcessRecords(_)
ExcessRecords(exits) ==
  IF exits = <<>> THEN <<>>
  ELSE (IF Less(principal_gwei, Head(exits).amount)
        THEN <<[Head(exits) EXCEPT !.amount = Sub(Head(exits).amount, principal_gwei)]>>
        ELSE <<>>)
         \o ExcessRecords(Tail(exits))

\* calculate_earnings: exits_df.at[idx, 'amount'] = principal_cap_gwei
Capped(exits) ==
  [i \in 1..Len(exits) |->
     IF Less(principal_gwei, exits[i].amount)
     THEN [exits[i] EXCEPT !.amount = principal_gwei] ELSE exits[i]]

\* df.apply(lambda row: adjust_reward(row['amount'], row['validator_type']), axis=1)
WithAdjusted(rows) ==
  [i \in 1..Len(rows) |->
     [row             |-> rows[i],
      amount_adjusted |-> adjust_reward(rows[i].amount, rows[i].validator_type)]]

\* df['amount_adjusted'] / 10**(3 * n): the column as doubles, divided
AmountEth(rows, n) ==
  [i \in 1..Len(rows) |->
     TrueDiv(IntOf(RoundToDouble(rows[i].amount_adjusted, 0)), n)]

\* exits_df.apply(lambda row: get_bonded_principal(row['amount'], row['validator_type']), axis=1)
WithPrincipal(rows) ==
  [i \in 1..Len(rows) |->
     [row             |-> rows[i],
      amount_adjusted |-> get_bonded_principal(rows[i].amount,
                                               rows[i].validator_type)]]

\* calculate_earnings(df): the three frames with their amount_adjusted
\* column, and the totals in ETH
calculate_earnings(df) ==
  LET flagged == Masked(df.rows, df.has_exit_flag, TRUE)
      others  == Masked(df.rows, df.has_exit_flag, FALSE)
      exits_df       == IF df.has_exit_flag THEN Capped(flagged) ELSE flagged
      withdrawals_df == IF df.has_exit_flag
                        THEN others \o ExcessRecords(flagged) ELSE others
      proposals_df   == OfType(df.rows, "proposal")
      total_withdrawals == SumOf(AmountEth(WithAdjusted(withdrawals_df), 3))
      total_proposals   == SumOf(AmountEth(WithAdjusted(proposals_df), 6))
      total_exits       == SumOf(AmountEth(WithPrincipal(exits_df), 3))
  IN  [withdrawals       |-> WithAdjusted(withdrawals_df),
       proposals         |-> WithAdjusted(proposals_df),
       exits             |-> WithPrincipal(exits_df),
       total_withdrawals |-> total_withdrawals,
       total_proposals   |-> total_proposals,
       total_exits       |-> total_exits,
       exit_count        |-> Len(exits_df),
       grand_total       |-> Normal(FloatAdd(total_withdrawals, total_proposals)),
       record_count      |-> Len(df.rows) - Len(exits_df)]

\* Rows of a ledger: withdrawals just below and at 8 ETH, of 32 ETH and of
\* 33 ETH, exit or not, for an LEB8 minipool; an exit of a standard
\* validator; an exit out of the epochs asked for; a proposal.
StoredWithdrawal(amount, is_exit, type, epoch) ==
  [record_type |-> "withdrawal", amount |-> amount, epoch |-> epoch,
   node |-> "n", validator_type |-> type, is_exit |-> is_exit]

FlaggedRows ==
  {StoredWithdrawal(a, x, TypeOf(100), 1) :
     a \in {Sub(exit_threshold_gwei, <<1>>), exit_threshold_gwei, principal_gwei,
            Mul(DigitsOf(33), DigitsOf(10^9))},
     x \in BOOLEAN}
  \cup {StoredWithdrawal(principal_gwei, TRUE, TypeOf(320), 1),
        StoredWithdrawal(principal_gwei, TRUE, TypeOf(160), 3),
        [StoredWithdrawal(DigitsOf(10^9), FALSE, TypeOf(160), 1) EXCEPT !.node = "m"],
        [record_type |-> "proposal",
         amount |-> Decimal(<<1, 0, 0, 0, 0, 0, 0, 0, 0, 0, 0, 0, 0, 0, 0, 0, 0, 7>>),
         epoch |-> 2, node |-> "n", validator_type |-> TypeOf(80), is_exit |-> FALSE]}

\* A ledger written before the is_exit column: the rows have no flag.
UnflaggedRows == {r \in FlaggedRows : ~r.is_exit}

AnyLedgers ==
  {[found |-> TRUE, has_exit_flag |-> TRUE, rows |-> rows] :
     rows \in SeqsUpTo(FlaggedRows, MaxLedgerRows)}
  \cup {[found |-> TRUE, has_exit_flag |-> FALSE, rows |-> rows] :
          rows \in SeqsUpTo(UnflaggedRows, MaxLedgerRows)}

\* run_aggregator(fromBlock, toBlock, parquet_file)
RunAggregator ==
  /\ call.op = "run_aggregator" /\ ~call.done
  /\ call' = Returned(call, run_aggregator(call.args.fromBlock, call.args.toBlock,
                                           call.args.file))
  /\ UNCHANGED <<SystemVars, client>>

\* calculate_earnings(df) on the frame load_data returned
CalculateEarnings ==
  /\ call.op = "calculate_earnings" /\ ~call.done
  /\ call' = Returned(call, calculate_earnings(call.args.df))
  /\ UNCHANGED <<SystemVars, client>>

\* The calls made: each behaviour starts with one of them pending.
AllCalls ==
  UNION {
    \* process_withdrawals over up to two withdrawals and a status map
    {Pending("process_withdrawals", [data |-> data, statuses |-> statuses]) :
       data \in SeqsUpTo(AnyWithdrawals, 2), statuses \in StatusMaps},
    \* process_proposals over up to two proposals
    {Pending("process_proposals", [data |-> data]) :
       data \in SeqsUpTo(AnyProposals, 2)},
    \* collect_rewards: cycles of one chunk and of two, without a ledger file
    {Pending("collect_rewards", [replies |-> rs, epoch |-> fallback_epoch]) :
       rs \in {<<r>> : r \in AnyChunkReplies}
       \cup {<<r, ExitedChunkReply>> : r \in AnyChunkReplies}},
    \* load_validators of a table
    {Pending("load_validators", [table |-> t]) : t \in AnyTables},
    \* chunk_validators of a table, by a reader that has not loaded yet
    {Pending("chunk_validators", [table |-> t, chunk_size |-> n]) :
       t \in AnyTables, n \in 1..MaxChunkSize},
    \* adjust_reward of an amount and a bond type
    {Pending("adjust_reward", [amount |-> a, validator_type |-> t]) :
       a \in AnyAmounts, t \in AnyTypes},
    \* run_aggregator over a ledger
    {Pending("run_aggregator", [fromBlock |-> 1, toBlock |-> 2, file |-> f]) :
       f \in AnyLedgers \cup {NotFound}},
    \* calculate_earnings on the frame load_data returned
    {Pending("calculate_earnings",
       [df |-> [f EXCEPT !.rows = FilterEpochs(f.rows, 1, 2)]]) :
       f \in AnyLedgers}}

CallInit == Idle /\ call \in AllCalls

CallNext ==
  \/ ProcessWithdrawals
  \/ ProcessProposals
  \/ CollectRewards
  \/ LoadValidators
  \/ ChunkValidators
  \/ AdjustReward
  \/ RunAggregator
  \/ CalculateEarnings

CallSpec == CallInit /\ [][CallNext]_vars

\* C13: a withdrawal event has is_exit true exactly when the statuses map
\* holds, for its validator, one of exited_unslashed, exited_slashed,
\* withdrawal_possible, withdrawal_done (false for a validator not in the
\* map, whatever the amount); a proposal event has is_exit false.
C13_ExitFlag ==
  /\ (call.op = "process_withdrawals" /\ call.done) =>
       /\ Len(call.result) = Len(call.args.data)
       /\ \A i \in 1..Len(call.result) :
            LET v == call.args.data[i].validatorindex
            IN  call.result[i].is_exit
                  <=> /\ v \in DOMAIN call.args.statuses
                      /\ call.args.statuses[v] \in
                           {"exited_unslashed", "exited_slashed",
                            "withdrawal_possible", "withdrawal_done"}
  /\ (call.op = "process_proposals" /\ call.done) =>
       \A i \in 1..Len(call.result) : call.result[i].is_exit = FALSE

\* Two withdrawals of one exited validator, a skim and a full balance.
C13_ExitedBothAmounts ==
  /\ call.op = "process_withdrawals" /\ call.done
  /\ Len(call.result) = 2
  /\ call.result[1].is_exit /\ call.result[2].is_exit
  /\ call.result[1].amount # call.result[2].amount

\* Whether a proposal of the reply has a block that resolves.
Resolves(proposal) ==
  /\ proposal.exec_block_number # 0
  /\ proposal.block.ok
  /\ proposal.block.data # <<>>

\* C15: the events of process_proposals are those of the proposals whose
\* block resolves, in order: mev_source the relay tag and amount the MEV
\* reward when the block has a relay, mev_source empty and amount the
\* producer reward when it has none; the other proposals give no event.
C15_MevAttribution ==
  (call.op = "process_proposals" /\ call.done) =>
    LET data     == call.args.data
        resolved == {i \in 1..Len(data) : Resolves(data[i])}
    IN  /\ Len(call.result) = Cardinality(resolved)
        /\ \A i \in resolved :
             LET event == call.result[Cardinality({j \in resolved : j <= i})]
                 block == data[i].block.data[1]
             IN  IF block.relay # ""
                 THEN event.mev_source = block.relay
                        /\ event.amount = block.blockMevReward
                 ELSE event.mev_source = ""
                        /\ event.amount = block.producerReward

\* A reply whose first proposal has no block data and whose second has a
\* block from a relay: one event, of the second.
C15_SkippedThenRelay ==
  /\ call.op = "process_proposals" /\ call.done
  /\ Len(call.args.data) = 2
  /\ ~Resolves(call.args.data[1])
  /\ Len(call.result) = 1
  /\ call.result[1].mev_source = "flashbots"

\* The rows of a file that are withdrawals of a validator.
WithdrawalsOf(file, v) ==
  {i \in 1..Len(file.rows) :
     file.rows[i].record_type = "withdrawal" /\ file.rows[i].validator_index = v}

\* C14: when the statuses request of a chunk fails, the cycle goes on: the
\* withdrawals and the proposals the chunk's other requests returned are in
\* the ledger after the cycle, and every withdrawal of the chunk has
\* is_exit false.
C14_StatusFailureTolerated ==
  (call.op = "collect_rewards" /\ call.done) =>
    \A n \in 1..Len(call.args.replies) :
      LET reply == call.args.replies[n]
          file  == call.result
      IN  (~reply.statuses.ok /\ reply.withdrawals.ok /\ reply.proposals.ok) =>
            /\ \A k \in 1..Len(reply.withdrawals.data) :
                 LET w == reply.withdrawals.data[k]
                 IN  /\ \E i \in WithdrawalsOf(file, w.validatorindex) :
                          /\ file.rows[i].amount = w.amount
                          /\ file.rows[i].epoch = w.epoch
                     /\ \A i \in WithdrawalsOf(file, w.validatorindex) :
                          file.rows[i].is_exit = FALSE
            /\ \A k \in 1..Len(reply.proposals.data) :
                 Resolves(reply.proposals.data[k]) =>
                   \E i \in 1..Len(file.rows) :
                     /\ file.rows[i].record_type = "proposal"
                     /\ file.rows[i].validator_index =
                          reply.proposals.data[k].block.data[1].proposerIndex

\* A cycle of two chunks: the statuses request of the first failed, its
\* withdrawal and its proposal are in the ledger and the withdrawal is no
\* exit; the withdrawal of the second chunk is an exit.
C14_FailedFirstChunk ==
  /\ call.op = "collect_rewards" /\ call.done
  /\ Len(call.args.replies) = 2
  /\ ~call.args.replies[1].statuses.ok
  /\ Len(call.result.rows) = 3
  /\ \E i \in WithdrawalsOf(call.result, 1) : ~call.result.rows[i].is_exit
  /\ \E i \in WithdrawalsOf(call.result, 2) : call.result.rows[i].is_exit

\* The chunks put one after the other.
RECURSIVE Flatten(_)
Flatten(chunks) ==
  IF chunks = <<>> THEN <<>> ELSE Head(chunks) \o Flatten(Tail(chunks))

\* C16: for a loaded registry and a chunk size of 1 or more, the chunks put
\* one after the other are the registry's indices in the order of the table,
\* and each chunk has between 1 and chunk_size entries; so every position of
\* the registry is in exactly one chunk.
C16_ChunksPartition ==
  (call.op = "chunk_validators" /\ call.done /\ call.result.ok) =>
    /\ Flatten(call.result.chunks) = IndexList(call.result.validators)
    /\ \A k \in 1..Len(call.result.chunks) :
         /\ Len(call.result.chunks[k]) >= 1
         /\ Len(call.result.chunks[k]) <= call.args.chunk_size

\* Three validators in chunks of two: a full chunk, then a chunk of one.
C16_LastChunkShort ==
  /\ call.op = "chunk_validators" /\ call.done /\ call.result.ok
  /\ call.args.chunk_size = 2
  /\ Len(call.result.validators) = 3
  /\ Len(call.result.chunks) = 2
  /\ Len(call.result.chunks[2]) = 1

\* Rows after the header that name a validator and have fewer than the four
\* columns a validator needs.
ShortRows(table) ==
  {i \in 2..Len(table.rows) :
     /\ Len(table.rows[i]) >= 1
     /\ Len(table.rows[i]) < 4
     /\ strip(table.rows[i][1]) # ""}

\* C17: loading a table with a short row fails, be it loaded by
\* load_validators or by the load at the start of chunk_validators; no
\* registry and no chunks come out of such a table.
C17_ShortRowFails ==
  (call.op \in {"load_validators", "chunk_validators"} /\ call.done
     /\ call.args.table.found /\ ShortRows(call.args.table) # {}) =>
    ~call.result.ok

\* result = bonded + floor(borrowed * percent / 100), in integers:
\* 100 * (result - bonded) <= percent * borrowed < 100 * (result - bonded) + 100
FloorOfShare(result, bonded, borrowed, percent) ==
  /\ ~Less(result, bonded)
  /\ LET share == Mul(DigitsOf(percent), borrowed)
         whole == Mul(DigitsOf(100), Sub(result, bonded))
     IN  /\ ~Less(share, whole)
         /\ Less(share, Add(whole, DigitsOf(100)))

\* C18: adjust_reward(amount, t) is floor(amount//4 + (amount - amount//4) *
\* 0.14) for 8 <= int(t) < 15, floor(amount//2 + (amount - amount//2) * 0.15)
\* for 16 <= int(t) < 17 and amount otherwise, a text that is no number
\* included; adjust_reward(1000, 10) = 355, adjust_reward(1000, 16) = 575,
\* adjust_reward(1000, 32) = 1000.
C18_AdjustReward ==
  (call.op = "adjust_reward" /\ call.done) =>
    LET amount == call.args.amount
        type   == call.args.validator_type
        t      == IntOfType(type)
    IN  /\ (type.numeric /\ 8 <= t /\ t < 15) =>
             FloorOfShare(call.result, ShiftRight(amount, 2),
                          Sub(amount, ShiftRight(amount, 2)), 14)
        /\ (type.numeric /\ 16 <= t /\ t < 17) =>
             FloorOfShare(call.result, ShiftRight(amount, 1),
                          Sub(amount, ShiftRight(amount, 1)), 15)
        /\ (~type.numeric \/ t < 8 \/ t = 15 \/ t >= 17) => call.result = amount
        /\ (amount = DigitsOf(1000) /\ type = TypeOf(100)) => call.result = DigitsOf(355)
        /\ (amount = DigitsOf(1000) /\ type = TypeOf(160)) => call.result = DigitsOf(575)
        /\ (amount = DigitsOf(1000) /\ type = TypeOf(320)) => call.result = DigitsOf(1000)

\* share = whole // parts, in integers: parts * share <= whole < parts * share + parts
FloorOfQuotient(share, whole, parts) ==
  /\ ~Less(whole, Mul(DigitsOf(parts), share))
  /\ Less(whole, Add(Mul(DigitsOf(parts), share), DigitsOf(parts)))

\* The bonded principal of an amount: a quarter in [8, 15), a half in
\* [16, 17), the amount otherwise.
IsBondedPrincipal(adjusted, amount, type) ==
  LET t == IntOfType(type)
  IN  IF type.numeric /\ 8 <= t /\ t < 15 THEN FloorOfQuotient(adjusted, amount, 4)
      ELSE IF type.numeric /\ 16 <= t /\ t < 17 THEN FloorOfQuotient(adjusted, amount, 2)
      ELSE adjusted = amount

EightEth == Decimal(<<8, 0, 0, 0, 0, 0, 0, 0, 0, 0>>)

ThirtyTwoEth == Decimal(<<3, 2, 0, 0, 0, 0, 0, 0, 0, 0, 0>>)

\* C19: the amount of an exit record after aggregation is its bonded
\* principal, amount // 4 for 8 <= t < 15, amount // 2 for 16 <= t < 17 and
\* the amount otherwise, and nothing else is applied to it; an exit of 32 ETH
\* in gwei with bond type 10 gives 8 ETH in gwei.
C19_BondedPrincipal ==
  /\ (call.op = "run_aggregator" /\ call.done /\ call.result.found) =>
       LET exits    == call.result.fetched.exits
           adjusted == call.result.amounts.exits
       IN  /\ Len(adjusted) = Len(exits)
           /\ \A i \in 1..Len(exits) :
                /\ IsBondedPrincipal(adjusted[i].amount, exits[i].amount, exits[i].type)
                /\ (exits[i].amount = ThirtyTwoEth /\ exits[i].type = TypeOf(100)) =>
                     adjusted[i].amount = EightEth
  /\ (call.op = "calculate_earnings" /\ call.done) =>
       \A i \in 1..Len(call.result.exits) :
         LET exit == call.result.exits[i]
         IN  IsBondedPrincipal(exit.amount_adjusted, exit.row.amount,
                               exit.row.validator_type)

\* An exit of 32 ETH of an LEB8 minipool went through the aggregation and
\* counts 8 ETH.
C19_QuarterOfPrincipal ==
  /\ call.op = "run_aggregator" /\ call.done /\ call.result.found
  /\ \E i \in 1..Len(call.result.fetched.exits) :
       /\ call.result.fetched.exits[i].amount = ThirtyTwoEth
       /\ call.result.fetched.exits[i].type = TypeOf(100)
       /\ call.result.amounts.exits[i].amount = EightEth

\* The k-th position of a set of positions.
Nth(positions, k) ==
  CHOOSE i \in positions : Cardinality({j \in positions : j < i}) = k - 1

\* The positions of the withdrawals that count as exits: is_exit true and an
\* amount of 8 ETH in gwei or more.
ExitPositions(rows) ==
  {i \in 1..Len(rows) : rows[i].is_exit /\ ~Less(rows[i].amount, EightEth)}

\* The exits are the withdrawals at the exit positions, in their order; the
\* other withdrawals are all among the regular withdrawals with their full
\* amount, next to one record for every exit above 32 ETH.
ExitsSelected(rows, exits, withdrawals) ==
  LET chosen == ExitPositions(rows)
      others == (1..Len(rows)) \ chosen
  IN  /\ Len(exits) = Cardinality(chosen)
      /\ \A k \in 1..Len(exits) :
           /\ exits[k].epoch = rows[Nth(chosen, k)].epoch
           /\ exits[k].type = rows[Nth(chosen, k)].validator_type
      /\ \A i \in others :
           Cardinality({k \in 1..Len(withdrawals) :
                          /\ withdrawals[k].amount = rows[i].amount
                          /\ withdrawals[k].type = rows[i].validator_type})
             >= Cardinality({j \in others :
                               /\ rows[j].amount = rows[i].amount
                               /\ rows[j].validator_type = rows[i].validator_type})
      /\ Len(withdrawals)
           = Cardinality(others)
               + Cardinality({i \in chosen : Less(ThirtyTwoEth, rows[i].amount)})

\* C20: in a ledger with the is_exit column, a withdrawal of the epochs asked
\* for contributes to the exits if and only if its is_exit is true and its
\* amount is at least 8 * 10^9 gwei; every other withdrawal is a regular
\* withdrawal with its full amount.  So in fetch_data and in
\* calculate_earnings.
C20_ExitSelection ==
  /\ (call.op = "run_aggregator" /\ call.done /\ call.result.found
        /\ call.args.file.has_exit_flag) =>
       ExitsSelected(OfType(FilterEpochs(call.args.file.rows, call.args.fromBlock,
                                         call.args.toBlock), "withdrawal"),
                     call.result.fetched.exits, call.result.fetched.withdrawals)
  /\ (call.op = "calculate_earnings" /\ call.done /\ call.args.df.has_exit_flag) =>
       ExitsSelected(OfType(call.args.df.rows, "withdrawal"),
                     [k \in 1..Len(call.result.exits) |->
                        RecordOf(call.result.exits[k].row)],
                     [k \in 1..Len(call.result.withdrawals) |->
                        RecordOf(call.result.withdrawals[k].row)])

\* Two withdrawals of an exited validator, one a wei short of 8 ETH and one
\* of 8 ETH: the first is a regular withdrawal, the second the only exit.
C20_SkimOfExitedValidator ==
  /\ call.op = "run_aggregator" /\ call.done /\ call.result.found
  /\ call.args.file.has_exit_flag
  /\ Len(call.args.file.rows) = 2
  /\ \A i \in 1..2 : call.args.file.rows[i].is_exit
  /\ call.args.file.rows[1].amount = Sub(EightEth, <<1>>)
  /\ call.args.file.rows[2].amount = EightEth
  /\ Len(call.result.fetched.exits) = 1
  /\ call.result.fetched.exits[1].amount = EightEth
  /\ Len(call.result.fetched.withdrawals) = 1
  /\ call.result.fetched.withdrawals[1].amount = Sub(EightEth, <<1>>)

\* The regular withdrawal records of an amount and a bond type.
RecordsOf(withdrawals, amount, type) ==
  {j \in 1..Len(withdrawals) :
     withdrawals[j].amount = amount /\ withdrawals[j].type = type}

\* The commission share of an amount, as adjust_reward gives it.
IsAdjustedReward(adjusted, amount, type) ==
  LET t == IntOfType(type)
  IN  IF type.numeric /\ 8 <= t /\ t < 15
      THEN FloorOfShare(adjusted, ShiftRight(amount, 2),
                        Sub(amount, ShiftRight(amount, 2)), 14)
      ELSE IF type.numeric /\ 16 <= t /\ t < 17
      THEN FloorOfShare(adjusted, ShiftRight(amount, 1),
                        Sub(amount, ShiftRight(amount, 1)), 15)
      ELSE adjusted = amount

\* C21: a withdrawal that counts as an exit and is above 32 ETH gives one
\* exit record of exactly 32 * 10^9 gwei, adjusted to its bonded principal
\* and not by adjust_reward, and one regular withdrawal record of the amount
\* less 32 * 10^9, adjusted by adjust_reward; an exit of 32 ETH or less gives
\* one exit record with the full amount and no withdrawal record.
C21_ExitSplit ==
  (call.op = "run_aggregator" /\ call.done /\ call.result.found
     /\ call.args.file.has_exit_flag) =>
    LET rows     == OfType(FilterEpochs(call.args.file.rows, call.args.fromBlock,
                                        call.args.toBlock), "withdrawal")
        chosen   == ExitPositions(rows)
        others   == (1..Len(rows)) \ chosen
        above    == {i \in chosen : Less(ThirtyTwoEth, rows[i].amount)}
        exits    == call.result.fetched.exits
        regular  == call.result.fetched.withdrawals
        adjusted == call.result.amounts
    IN  /\ Len(exits) = Cardinality(chosen)
        /\ Len(regular) = Cardinality(others) + Cardinality(above)
        /\ Len(adjusted.withdrawals) = Len(regular)
        /\ \A j \in 1..Len(regular) :
             IsAdjustedReward(adjusted.withdrawals[j].amount, regular[j].amount,
                              regular[j].type)
        /\ \A k \in 1..Len(exits) :
             LET row == rows[Nth(chosen, k)]
             IN  /\ exits[k].amount
                      = IF Less(ThirtyTwoEth, row.amount) THEN ThirtyTwoEth
                        ELSE row.amount
                 /\ exits[k].type = row.validator_type
                 /\ IsBondedPrincipal(adjusted.exits[k].amount, exits[k].amount,
                                      exits[k].type)
        /\ \A i \in above :
             LET excess == Sub(rows[i].amount, ThirtyTwoEth)
                 type   == rows[i].validator_type
             IN  Cardinality(RecordsOf(regular, excess, type))
                   = Cardinality({j \in above : /\ rows[j].amount = rows[i].amount
                                                /\ rows[j].validator_type = type})
                     + Cardinality({j \in others : /\ rows[j].amount = excess
                                                   /\ rows[j].validator_type = type})

\* An exit of 33 ETH of an LEB8 minipool alone in the ledger: an exit record
\* of 32 ETH counted as 8 ETH, and a withdrawal of 1 ETH counted as 0.355 ETH.
C21_ExitOf33Eth ==
  /\ call.op = "run_aggregator" /\ call.done /\ call.result.found
  /\ call.args.file.has_exit_flag
  /\ Len(call.args.file.rows) = 1
  /\ Len(call.result.fetched.exits) = 1
  /\ call.result.fetched.exits[1].amount = ThirtyTwoEth
  /\ call.result.amounts.exits[1].amount = EightEth
  /\ Len(call.result.fetched.withdrawals) = 1
  /\ call.result.fetched.withdrawals[1].amount = Decimal(<<1, 0, 0, 0, 0, 0, 0, 0, 0, 0>>)
  /\ call.result.amounts.withdrawals[1].amount = Decimal(<<3, 5, 5, 0, 0, 0, 0, 0, 0>>)


\* The earnings in ETH of proposals and withdrawals alone: each amount
\* adjusted, converted and summed, the two sums added.
EarningsInEth(proposals, withdrawals) ==
  Normal(FloatAdd(
    SumOf([i \in 1..Len(proposals) |->
             convert_wei_to_eth(adjust_reward(proposals[i].amount, proposals[i].type))]),
    SumOf([i \in 1..Len(withdrawals) |->
             convert_gwei_to_eth(adjust_reward(withdrawals[i].amount,
                                              withdrawals[i].type))])))

\* Exit records in the place of the ones fetched: none, the fetched ones
\* with one more, with one less and with one changed.
OtherExits(exits) ==
  LET records == {RecordOf(r) : r \in {x \in FlaggedRows : x.is_exit}}
  IN  {<<>>}
        \cup {exits \o <<x>> : x \in records}
        \cup {SubSeq(exits, 1, i - 1) \o SubSeq(exits, i + 1, Len(exits)) :
                i \in 1..Len(exits)}
        \cup {[exits EXCEPT ![i] = x] : i \in 1..Len(exits), x \in records}

\* C22: the grand total of a summary is total_proposals + total_withdrawals
\* and holds no amount of an exit record: it is the sum over the proposals
\* and the regular withdrawals alone, and it stays the same whichever exit
\* records are passed beside them, while total_exits is the sum of the
\* bonded principals of those exit records.
C22_GrandTotalWithoutExits ==
  /\ (call.op = "run_aggregator" /\ call.done /\ call.result.found) =>
       LET f == call.result.fetched
           t == call.result.amounts.totals
       IN  /\ t.grand_total = Normal(FloatAdd(t.total_proposals, t.total_withdrawals))
           /\ t.grand_total = EarningsInEth(f.proposals, f.withdrawals)
           /\ \A exits \in OtherExits(f.exits) :
                LET o == aggregate_data(f.proposals, f.withdrawals, exits).totals
                IN  /\ o.grand_total = t.grand_total
                    /\ o.total_exits =
                         SumOf([i \in 1..Len(exits) |->
                                  convert_gwei_to_eth(
                                    get_bonded_principal(exits[i].amount,
                                                         exits[i].type))])
  /\ (call.op = "calculate_earnings" /\ call.done) =>
       LET r == call.result
       IN  /\ r.grand_total = Normal(FloatAdd(r.total_withdrawals, r.total_proposals))
           /\ r.total_withdrawals = SumOf(AmountEth(r.withdrawals, 3))
           /\ r.total_proposals = SumOf(AmountEth(r.proposals, 6))
           /\ r.total_exits = SumOf(AmountEth(r.exits, 3))

\* A summary with exits beside earnings: neither total is zero.
C22_ExitsBesideEarnings ==
  /\ call.op = "run_aggregator" /\ call.done /\ call.result.found
  /\ call.result.amounts.totals.total_exits.m # <<>>
  /\ call.result.amounts.totals.grand_total.m # <<>>
  /\ call.result.amounts.totals.total_proposals.m # <<>>

\* C23: a backfill process that has stopped, because it completed or because
\* of a fatal error, has sent exactly one webhook notification if a webhook
\* endpoint is configured, and none if no endpoint is configured.
C23_NotifiedOnStop ==
  (bf_state \in {"Done", "Failed"}) =>
     notifications = IF discord_webhook = "" THEN 0 ELSE 1

\* The keys of the rows.
KeysOf(rows) == {KeyOf(rows[i]) : i \in 1..Len(rows)}

\* C24: in the merge of every collection cycle of the backfiller, for epoch
\* E, the rows of the ledger that are left after the rows of epoch E are
\* removed share no key with the records the cycle collected.
C24_NoSharedKey ==
  [][(bf_state = "Running" /\ last'.op = "bf_collect" /\ master.exists) =>
       \A c \in Cycles[next_epoch] :
         (/\ last'.epoch = next_epoch
          /\ last'.fetch_failed = c.fetch_failed
          /\ master' = collect_rewards(master, next_epoch, c))
           => KeysOf(DropEpoch(master.rows, next_epoch))
                \cap KeysOf(c.all_withdrawals \o c.all_proposals) = {}]_vars

\* C25: the rows of a ledger file that has been written are in non-decreasing
\* order of (epoch, record_type, validator_index): no row sorts strictly
\* before a row that precedes it.
C25_Sorted ==
  master.exists =>
    \A i, j \in 1..Len(master.rows) :
      i < j => ~SortsBefore(master.rows[j], master.rows[i])

(***************************************************************************)
(* Properties of the writers of the master file (WriterSpec).              *)
(***************************************************************************)
\* C26: the ledger file on disk is always a complete snapshot, the one from
\* before a merge or the new one: it is never a file cut short, at whatever
\* point of a merge a process dies.
C26_NeverTorn == ~writers.torn

\* C28, for a writer on its own: when a merge writes the file and no other
\* process has written it since the merge read it, every row the file held
\* of an epoch other than the merge's is still in the file, and so are the
\* records of the merge: nothing merged is lost.
C28_NoLossAlone ==
  [][\A p \in WriterNames :
       (writers.pc[p] = "loaded" /\ writers'.pc[p] = "idle" /\ ~writers.stale[p]) =>
         /\ \A r \in Range(master.rows) :
              r.epoch # writers.job[p].epoch => KeyOf(r) \in KeysOf(master'.rows)
         /\ \A r \in Range(writers.job[p].withdrawals \o writers.job[p].proposals) :
              KeyOf(r) \in KeysOf(master'.rows)]_vars

\* A lost update: both processes have finished a merge, for different
\* epochs, the file is whole, and a record one of them merged is not in it.
C28_LostUpdate ==
  \E p, q \in WriterNames :
    /\ p # q
    /\ writers.pc[p] = "idle" /\ writers.pc[q] = "idle"
    /\ writers.merged[p] # NoJob /\ writers.merged[q] # NoJob
    /\ ~writers.torn
    /\ \E r \in Range(writers.merged[q].withdrawals \o writers.merged[q].proposals) :
         /\ r.epoch # writers.merged[p].epoch
         /\ KeyOf(r) \notin KeysOf(master.rows)


\* One instance of the backfiller and then one of the monitor: a process
\* that has collected, stopped or failed is not started again, and the
\* backfiller is not started once the monitor has been.
ControllerNext ==
  \/ /\ Next
     /\ current_start_epoch = 0
     /\ (bf_state # "Running" /\ bf_state' = "Running") =>
          (bf_state = "Idle" /\ ~collected)
  \/ /\ MonitorNext
     /\ (mon_state # "Running" /\ mon_state' = "Running") => current_start_epoch = 0

ControllerSpec == Init /\ [][ControllerNext]_vars

C29_RestartAtNextWindow ==
  [][(/\ bf_state \in {"Idle", "Done"}
      /\ collected
      /\ last'.op = "bf_start"
      /\ override_start_epoch' = 0
      /\ master.exists /\ master.rows # <<>>
      /\ MaxOf({master.rows[i].epoch : i \in 1..Len(master.rows)})
           \in (next_epoch - EPOCH_INTERVAL)..(next_epoch - 1))
       => next_epoch' = next_epoch]_vars

\* C30: after a cycle of the monitor for epoch E the next epoch to collect
\* is E + interval, whatever the finalized epoch read in the iteration: the
\* window of a cycle, E .. E + 99, is followed at once by the window of the
\* next cycle, and no epoch up to the finalized epoch is left out.
C30_ContiguousWindows ==
  [][(mon_state = "Running" /\ last'.op = "mon_collect") =>
       /\ last'.epoch = current_start_epoch
       /\ current_start_epoch' = current_start_epoch + EPOCH_INTERVAL]_vars
====
